---------------------------- MODULE Spec2Model ----------------------------
(***************************************************************************)
(* A model of the crime-risk routing pipeline: the block-address parser    *)
(* and sampler (geocoding/block_sampling.py), the batch geocoder, the      *)
(* graph risk annotator (graph/create_graph.py) and the route evaluator    *)
(* (graph/main.py, graph/evaluate_routes.py).                              *)
(*                                                                         *)
(* Strings are sequences of one-character strings, so that strip, upper,   *)
(* split, replace, join, int() and str() are computed and not assumed.     *)
(***************************************************************************)
EXTENDS Integers, Sequences, FiniteSets, TLC

\* Python's None is the empty tuple; a present value v is <<v>>
None == <<>>
Some(v) == <<v>>

(***************************************************************************)
(* Python string primitives used by the sources.                           *)
(***************************************************************************)
LowerLetters == <<"a","b","c","d","e","f","g","h","i","j","k","l","m",
                  "n","o","p","q","r","s","t","u","v","w","x","y","z">>
UpperLetters == <<"A","B","C","D","E","F","G","H","I","J","K","L","M",
                  "N","O","P","Q","R","S","T","U","V","W","X","Y","Z">>
DigitChars == <<"0","1","2","3","4","5","6","7","8","9">>

IsSpace(c) == c \in {" ", "\t"}

IsDigit(c) == \E i \in 1..10 : DigitChars[i] = c

DigitVal(c) == (CHOOSE i \in 1..10 : DigitChars[i] = c) - 1

\* str.upper() on one character
UpperChar(c) ==
    IF \E i \in 1..26 : LowerLetters[i] = c
    THEN UpperLetters[CHOOSE i \in 1..26 : LowerLetters[i] = c]
    ELSE c

\* str.upper()
Upper(s) == [i \in 1..Len(s) |-> UpperChar(s[i])]

RECURSIVE LStrip(_)
LStrip(s) == IF s # <<>> /\ IsSpace(s[1]) THEN LStrip(Tail(s)) ELSE s

RECURSIVE RStrip(_)
RStrip(s) ==
    IF s # <<>> /\ IsSpace(s[Len(s)]) THEN RStrip(SubSeq(s, 1, Len(s) - 1)) ELSE s

\* str.strip()
Strip(s) == RStrip(LStrip(s))

\* s[i:] starts with pat
StartsWithAt(s, i, pat) ==
    /\ i + Len(pat) - 1 <= Len(s)
    /\ \A k \in 1..Len(pat) : s[i + k - 1] = pat[k]

\* pat in s
Contains(s, pat) == \E i \in 1..(Len(s) + 1) : StartsWithAt(s, i, pat)

\* str.replace(pat, "") : every non-overlapping occurrence, left to right
RECURSIVE RemoveAll(_, _)
RemoveAll(s, pat) ==
    IF s = <<>> THEN <<>>
    ELSE IF StartsWithAt(s, 1, pat)
         THEN RemoveAll(SubSeq(s, Len(pat) + 1, Len(s)), pat)
         ELSE <<s[1]>> \o RemoveAll(Tail(s), pat)

\* str.split() : on runs of whitespace, no empty tokens
RECURSIVE SplitWsAcc(_, _, _)
SplitWsAcc(s, cur, acc) ==
    IF s = <<>> THEN (IF cur = <<>> THEN acc ELSE Append(acc, cur))
    ELSE IF IsSpace(s[1])
         THEN SplitWsAcc(Tail(s), <<>>, IF cur = <<>> THEN acc ELSE Append(acc, cur))
         ELSE SplitWsAcc(Tail(s), Append(cur, s[1]), acc)

SplitWs(s) == SplitWsAcc(s, <<>>, <<>>)

\* str.split(c) for a one-character separator: empty fields are kept
RECURSIVE SplitOnAcc(_, _, _, _)
SplitOnAcc(s, c, cur, acc) ==
    IF s = <<>> THEN Append(acc, cur)
    ELSE IF s[1] = c
         THEN SplitOnAcc(Tail(s), c, <<>>, Append(acc, cur))
         ELSE SplitOnAcc(Tail(s), c, Append(cur, s[1]), acc)

SplitOn(s, c) == SplitOnAcc(s, c, <<>>, <<>>)

\* sep.join(parts)
RECURSIVE Join(_, _)
Join(parts, sep) ==
    IF parts = <<>> THEN <<>>
    ELSE IF Len(parts) = 1 THEN parts[1]
         ELSE parts[1] \o sep \o Join(Tail(parts), sep)

RECURSIVE DigitsValue(_, _)
DigitsValue(s, acc) ==
    IF s = <<>> THEN acc
    ELSE IF s[1] = "_" THEN DigitsValue(Tail(s), acc)
         ELSE DigitsValue(Tail(s), 10 * acc + DigitVal(s[1]))

\* The digit part of an int() literal: digits, single underscores only between digits
IsIntBody(s) ==
    /\ s # <<>>
    /\ \A i \in 1..Len(s) : IsDigit(s[i]) \/ s[i] = "_"
    /\ IsDigit(s[1]) /\ IsDigit(s[Len(s)])
    /\ \A i \in 1..(Len(s) - 1) : ~(s[i] = "_" /\ s[i + 1] = "_")

\* int(s): surrounding whitespace, an optional sign; None stands for ValueError
ParseInt(raw) ==
    LET s == Strip(raw)
        signed == s # <<>> /\ s[1] \in {"+", "-"}
        body == IF signed THEN Tail(s) ELSE s
    IN  IF ~IsIntBody(body) THEN None
        ELSE IF signed /\ s[1] = "-" THEN Some(0 - DigitsValue(body, 0))
             ELSE Some(DigitsValue(body, 0))

RECURSIVE NatStr(_)
NatStr(n) ==
    IF n < 10 THEN <<DigitChars[n + 1]>>
    ELSE NatStr(n \div 10) \o <<DigitChars[(n % 10) + 1]>>

\* str(n) for an int
IntStr(n) == IF n < 0 THEN <<"-">> \o NatStr(0 - n) ELSE NatStr(n)

\* list(range(start, stop, step)) for step >= 1
PyRange(start, stop, step) ==
    LET n == IF stop > start THEN (stop - start + step - 1) \div step ELSE 0
    IN  [k \in 1..n |-> start + (k - 1) * step]


(***************************************************************************)
(* Address Parser: geocoding/block_sampling.py, parse_block_address.       *)
(***************************************************************************)
SP == <<" ">>
AMP == <<"&">>
BLOCK == <<"B","L","O","C","K">>

\* the suffix list of the intersection and the direct-street branches
ShortSuffixes == {<<"S","T">>, <<"A","V","E">>, <<"R","D">>, <<"B","L","V","D">>, <<"D","R">>, <<"L","N">>, <<"W","A","Y">>, <<"P","L">>}

BlockSuffixesWithoutCourt == ShortSuffixes

\* the suffix list of the block branch
BlockSuffixes == ShortSuffixes \cup {<<"C","I","R">>, <<"C","T">>}

Directions == {<<"N">>, <<"S">>, <<"E">>, <<"W">>, <<"N","E">>, <<"N","W">>, <<"S","E">>, <<"S","W">>}

DescriptorWithoutFlag(block_num, street_name, direction, suffix, is_intersection) ==
    IF is_intersection
    THEN [block_num |-> block_num, street_name |-> street_name, direction |-> direction,
          suffix |-> suffix, is_intersection |-> is_intersection]
    ELSE [block_num |-> block_num, street_name |-> street_name, direction |-> direction,
          suffix |-> suffix]

Descriptor(block_num, street_name, direction, suffix, is_intersection) ==
    [block_num |-> block_num, street_name |-> street_name, direction |-> direction,
     suffix |-> suffix, is_intersection |-> is_intersection]

\* the shared tail of the intersection branch and of the direct-street branch
StreetOnly(text, is_intersection) ==
    LET parts == SplitWs(text)
        suffix == IF Len(parts) >= 2 /\ parts[Len(parts)] \in ShortSuffixes
                  THEN parts[Len(parts)] ELSE <<>>
        street_name == IF suffix # <<>>
                       THEN Join(SubSeq(parts, 1, Len(parts) - 1), SP)
                       ELSE text
    IN  Descriptor(None, street_name, <<>>, suffix, is_intersection)

\* the block branch, on the tokens left after removing the BLOCK keyword
BlockStyle(parts) ==
    IF parts = <<>> THEN Descriptor(None, <<>>, <<>>, <<>>, FALSE)
    ELSE
    LET block_num == ParseInt(parts[1])
        has_dir == Len(parts) > 1 /\ parts[2] \in Directions
        direction == IF has_dir THEN parts[2] ELSE <<>>
        street_start_idx == IF has_dir THEN 2 ELSE 1
        has_suffix == Len(parts) > street_start_idx /\ parts[Len(parts)] \in BlockSuffixes
        suffix == IF has_suffix THEN parts[Len(parts)] ELSE <<>>
        street_end_idx == IF has_suffix THEN Len(parts) - 1 ELSE Len(parts)
        street_name == IF street_end_idx > street_start_idx
                       THEN Join(SubSeq(parts, street_start_idx + 1, street_end_idx), SP)
                       ELSE <<>>
    IN  Descriptor(block_num, street_name, direction, suffix, FALSE)

parse_block_address(raw) ==
    LET block_address == Upper(Strip(raw))
    IN  IF Contains(block_address, AMP)
        THEN StreetOnly(Strip(SplitOn(block_address, "&")[1]), TRUE)
        ELSE IF ~Contains(block_address, BLOCK)
             THEN StreetOnly(block_address, FALSE)
             ELSE BlockStyle(SplitWs(RemoveAll(block_address, BLOCK)))

(***************************************************************************)
(* Block Sampler: geocoding/block_sampling.py, generate_block_samples.     *)
(***************************************************************************)
BlockEndPlus100(block_num) == block_num + 100

\* block_end = block_num + 99
BlockEnd(block_num) == block_num + 99

SampleNumbersExclusive(block_num, spacing) ==
    PyRange(block_num, BlockEnd(block_num), spacing)

\* range(block_start, block_end + 1, spacing)
SampleNumbers(block_num, spacing) ==
    PyRange(block_num, BlockEnd(block_num) + 1, spacing)

\* one sample: the non-empty parts joined by single spaces
SampleAddress(addr_num, street_name, direction, suffix) ==
    Join(<<IntStr(addr_num)>>
         \o (IF direction # <<>> THEN <<direction>> ELSE <<>>)
         \o <<street_name>>
         \o (IF suffix # <<>> THEN <<suffix>> ELSE <<>>), SP)

generate_block_samples_ZeroSampled(block_num, street_name, direction, suffix, spacing) ==
    IF block_num = None THEN <<>>
    ELSE [k \in 1..Len(SampleNumbers(block_num[1], spacing)) |->
             SampleAddress(SampleNumbers(block_num[1], spacing)[k],
                           street_name, direction, suffix)]

generate_block_samples(block_num, street_name, direction, suffix, spacing) ==
    IF block_num = None \/ block_num = Some(0) THEN <<>>
    ELSE LET nums == SampleNumbers(block_num[1], spacing)
         IN  [k \in 1..Len(nums) |->
                 SampleAddress(nums[k], street_name, direction, suffix)]

\* the leading whitespace-separated token of a sample, read back as a number
LeadingNumber(sample) ==
    LET parts == SplitWs(sample) IN IF parts = <<>> THEN None ELSE ParseInt(parts[1])

(***************************************************************************)
(* Raw addresses the parser and the sampler are run on.                    *)
(***************************************************************************)
Addresses == {
    <<"8","0","0"," ","B","L","O","C","K"," ","W","A","S","H","I","N","G","T","O","N"," ","S","T">>,
    <<"2","0","0"," ","B","L","O","C","K"," ","E"," ","C","O","T","T","A","G","E"," ","S","T">>,
    <<"0"," ","B","L","O","C","K"," ","C","L","I","N","T","O","N"," ","S","T">>,
    <<"W","A","S","H","I","N","G","T","O","N"," ","S","T"," ","&"," ","W","I","L","L","I","A","M","S"," ","S","T">>,
    <<"1","0","0"," ","B","L","O","C","K"," ","H","U","N","T","I","N","G","T","O","N"," ","A","V","E">>,
    <<" "," ","5"," ","b","l","o","c","k"," ","m","a","i","n"," ","c","t"," ">>,
    <<"-","5"," ","B","L","O","C","K"," ","E","L","M">>,
    <<"1","2","A"," ","B","L","O","C","K"," ","E","L","M"," ","S","T">>,
    <<"B","L","O","C","K">>,
    <<"M","A","I","N"," ","S","T">>,
    <<"1","_","0"," ","B","L","O","C","K"," ","E","L","M"," ","S","T">>,
    <<"7"," ","B","L","O","C","K">>,
    <<"9","5","0"," ","B","L","O","C","K"," ","W"," ","S","T">>,
    <<"1","0","0"," ","B","L","O","C","K"," ","M","A","I","N"," ","S","T"," ","&"," ","E","L","M"," ","S","T">>,
    <<"S","T"," ","B","L","O","C","K">>,
    <<"M","A","I","N"," ","C","T">>,
    <<"E","L","M"," ","C","I","R"," ","&"," ","O","A","K"," ","S","T">>,
    <<>>,
    <<"&">>,
    <<"b","l","o","c","k">>,
    <<"2","0"," ","B","L","O","C","K"," ","N","E"," ","O","L","D"," ","P","O","S","T"," ","R","D">>,
    <<"O","L","D"," ","P","O","S","T"," ","R","D">>,
    <<"m","a","s","s"," ","a","v","e","&","v","a","s","s","a","r"," ","s","t">>}

\* spacings run over 1..MaxSpacing, past the 100-number block span
MaxSpacing == 101



(***************************************************************************)
(* Batch Geocoder: geocoding/block_sampling.py, batch_geocode_addresses,   *)
(* parse_coordinates, geocode_block_samples, process_all_block_addresses.  *)
(***************************************************************************)
\* the spellings float() reads as not-a-number and as infinity, in any case
NanSpellings == {<<"N","A","N">>}
InfSpellings == {<<"I","N","F">>, <<"I","N","F","I","N","I","T","Y">>}

\* float(s) for decimal literals without exponent: value mant / 10^frac, or the
\* special values nan and (signed) inf; None is ValueError
ParseFloat(raw) ==
    LET s == Strip(raw)
        signed == s # <<>> /\ s[1] \in {"+", "-"}
        body == IF signed THEN Tail(s) ELSE s
        fields == SplitOn(body, ".")
        digits == Join(fields, <<>>)
        wellFormed == /\ Len(fields) <= 2
                      /\ digits # <<>>
                      /\ \A i \in 1..Len(digits) : IsDigit(digits[i])
    IN  IF Upper(body) \in NanSpellings THEN Some([special |-> "nan"])
        ELSE IF Upper(body) \in InfSpellings
        THEN Some([special |-> IF signed /\ s[1] = "-" THEN "-inf" ELSE "inf"])
        ELSE IF ~wellFormed THEN None
        ELSE Some([mant |-> (IF signed /\ s[1] = "-" THEN -1 ELSE 1) * DigitsValue(digits, 0),
                   frac |-> IF Len(fields) = 2 THEN Len(fields[2]) ELSE 0])

\* parse_coordinates: <<lon, lat>>, each None or Some(float)
parse_coordinates(coordinates_str) ==
    IF coordinates_str = None \/ coordinates_str = Some(<<>>) THEN <<None, None>>
    ELSE LET parts == SplitOn(coordinates_str[1], ",")
         IN  IF Len(parts) = 2 /\ ParseFloat(parts[1]) # None /\ ParseFloat(parts[2]) # None
             THEN <<ParseFloat(parts[1]), ParseFloat(parts[2])>>
             ELSE <<None, None>>

\* the temporary file of the batch starting at offset i
TempCsvName(i, batch_size) == (i \div batch_size) + 1

\* a slice that runs one row into the next batch
BatchSliceOverlapping(rows, i, batch_size) ==
    SubSeq(rows, i + 1, IF i + batch_size + 1 < Len(rows) THEN i + batch_size + 1 ELSE Len(rows))

\* addresses_df.iloc[i : i + BATCH_SIZE]
BatchSlice(rows, i, batch_size) ==
    SubSeq(rows, i + 1, IF i + batch_size < Len(rows) THEN i + batch_size ELSE Len(rows))

\* pd.read_csv turns an empty field into NaN
CsvField(text) == IF text = <<>> THEN None ELSE Some(text)

RECURSIVE Concat(_)
\* pd.concat(tables, ignore_index=True)
Concat(tables) == IF tables = <<>> THEN <<>> ELSE tables[1] \o Concat(Tail(tables))

\* the rows geocode_block_samples submits: id 1..n with the sample addresses
GeocodingDf(sample_addresses) ==
    [k \in 1..Len(sample_addresses) |-> [id |-> k, address |-> sample_addresses[k]]]

\* geocode_block_samples, after batch_geocode_addresses returned: one output row per
\* result row, the sample taken at the result row's POSITION in the returned table
JoinedResults(block_address, sample_addresses, geocoded_results) ==
    [k \in 1..Len(geocoded_results) |->
        LET coords == parse_coordinates(geocoded_results[k].Coordinates)
        IN  [block_address  |-> block_address,
             row_id         |-> geocoded_results[k].row_id,
             sample_address |-> IF k - 1 < Len(sample_addresses)
                                THEN sample_addresses[k] ELSE <<>>,
             lat            |-> coords[2],
             lon            |-> coords[1],
             geocode_status |-> geocoded_results[k].Match_Status]]

KeepRowByStatusOnly(row) == row.geocode_status \in {"Match", "Tie"}

\* the row filter of process_all_block_addresses
KeepRow(row) ==
    /\ row.geocode_status \in {"Match", "Tie"}
    /\ row.lat # None
    /\ row.lon # None

RECURSIVE SelectRows(_)
\* result_df[mask]
SelectRows(rows) ==
    IF rows = <<>> THEN <<>>
    ELSE (IF KeepRow(rows[1]) THEN <<rows[1]>> ELSE <<>>) \o SelectRows(Tail(rows))

(***************************************************************************)
(* The geocoding service, a black box: what it may answer to a request.    *)
(***************************************************************************)
COORDS == <<"-","7","1",".","0","5",",","4","2",".","3","1">>

\* what the service may say about one row: status and coordinates field
ResultKinds == {
    [Match_Status |-> "Match",    Coordinates |-> COORDS],
    [Match_Status |-> "Tie",      Coordinates |-> COORDS],
    [Match_Status |-> "Tie",      Coordinates |-> <<>>],
    [Match_Status |-> "No_Match", Coordinates |-> <<>>] }

NonOkStatuses == {429, 500}

\* a 200 body: one line per uploaded row, in upload order or reversed
ResponseTable(uploaded, kinds, reversed) ==
    [k \in 1..Len(uploaded) |->
        LET j == IF reversed THEN Len(uploaded) + 1 - k ELSE k
        IN  [row_id       |-> uploaded[j].id,
             Match_Status |-> kinds[j].Match_Status,
             Coordinates  |-> CsvField(kinds[j].Coordinates)]]

\* block groups of the aggregated crimes table, and the spacing of a run
GroupLists == {
    <<<<"9","5","0"," ","B","L","O","C","K"," ","W"," ","S","T">>>>,
    <<<<"7"," ","B","L","O","C","K"," ","E","L","M">>>>,
    <<<<"0"," ","B","L","O","C","K"," ","E","L","M">>, <<"7"," ","B","L","O","C","K"," ","E","L","M">>>>,
    <<<<"9","5","0"," ","B","L","O","C","K"," ","W"," ","S","T">>, <<"M","A","I","N"," ","S","T">>, <<"7"," ","B","L","O","C","K"," ","E","L","M">>>> }

GeoSpacings == {34, 50, 100}

\* BATCH_SIZE (9999 in the source), scaled down so that a table spans several batches
BATCH_SIZE == 2

Callers == {1, 2}

(***************************************************************************)
(* Graph Risk Annotator: graph/create_graph.py.  Coordinates are points of *)
(* an integer grid in the graph's projected frame; an edge geometry is a   *)
(* polyline of axis-parallel segments; a density is an integer.            *)
(***************************************************************************)
Abs(n) == IF n < 0 THEN 0 - n ELSE n

Sign(n) == IF n < 0 THEN -1 ELSE IF n > 0 THEN 1 ELSE 0

RECURSIVE SumSeq(_)
SumSeq(s) == IF s = <<>> THEN 0 ELSE s[1] + SumSeq(Tail(s))

\* the indices a boolean mask selects, in order
RECURSIVE MaskedIdx(_, _)
MaskedIdx(mask, k) ==
    IF k > Len(mask) THEN <<>>
    ELSE (IF mask[k] THEN <<k>> ELSE <<>>) \o MaskedIdx(mask, k + 1)

\* f"{n:02d}"
Pad2(n) == IF 0 <= n /\ n < 10 THEN <<"0">> \o IntStr(n) ELSE IntStr(n)

KDE_SCORE_FOR == <<"k","d","e","_","s","c","o","r","e","_","f","o","r","_">>

create_attr_name(time_of_day) ==
    LET bucket_start == (time_of_day \div 4) * 4
        bucket_end == bucket_start + 4
    IN  KDE_SCORE_FOR \o Pad2(bucket_start) \o <<"_">> \o Pad2(bucket_end)

Hours == 0..23

AttrNames == {create_attr_name(h) : h \in Hours}

\* "start-end" -> <<start, end>>, each None or Some(int)
IntervalBounds(interval_str) ==
    LET parts == SplitOn(Strip(interval_str), "-")
    IN  <<ParseInt(parts[1]), ParseInt(parts[2])>>

\* the mask of run_kde_on_graph: interval_start <= time_of_day < interval_end
InBucket(interval_str, time_of_day) ==
    LET b == IntervalBounds(interval_str)
    IN  b[1][1] <= time_of_day /\ b[2][1] > time_of_day

\* time_in_interval of lookup_street_and_assign: start <= hour <= end
time_in_interval(interval_str, hour) ==
    LET parts == SplitOn(interval_str, "-")
        start == ParseInt(parts[1])
        end == ParseInt(parts[2])
    IN  start[1] <= hour /\ hour <= end[1]

ClampWeightNot(weight) == weight

\* weights[weights < 0] = 0.0
ClampWeight(weight) == IF weight < 0 THEN 0 ELSE weight

\* to_crs / Transformer.transform(lon, lat): geographic to the graph's planar frame
ToCrs(lon, lat) == <<lon + 71, lat - 42>>

\* the fitted estimator: the bucket's projected points with their clamped weights
FitKde(crime_data, bucket) ==
    [k \in 1..Len(bucket) |->
        LET row == crime_data[bucket[k]]
            xy == ToCrs(row.coords[1][2], row.coords[1][1])
        IN  [x |-> xy[1], y |-> xy[2], weight |-> ClampWeight(row.score)]]

\* the Gaussian kernel of the estimator, by squared distance: positive near the
\* point, decreasing, and 0 where exp underflows
Kernel(d2) == IF d2 = 0 THEN 4 ELSE IF d2 <= 2 THEN 2 ELSE IF d2 <= 4 THEN 1 ELSE 0

\* np.exp(kde.score_samples(pt))
Density(kde, pt) ==
    SumSeq([k \in 1..Len(kde) |->
              kde[k].weight * Kernel((kde[k].x - pt[1]) * (kde[k].x - pt[1])
                                     + (kde[k].y - pt[2]) * (kde[k].y - pt[2]))])

SegLen(a, b) == Abs(b[1] - a[1]) + Abs(b[2] - a[2])

\* line.length
LineLength(line) == SumSeq([k \in 1..(Len(line) - 1) |-> SegLen(line[k], line[k + 1])])

\* line.interpolate(d): the point at distance d along the line, its end beyond that
RECURSIVE Interpolate(_, _)
Interpolate(line, d) ==
    IF Len(line) = 1 THEN line[1]
    ELSE IF d <= SegLen(line[1], line[2])
         THEN <<line[1][1] + Sign(line[2][1] - line[1][1]) * d,
                line[1][2] + Sign(line[2][2] - line[1][2]) * d>>
         ELSE Interpolate(Tail(line), d - SegLen(line[1], line[2]))

sample_points_along_line(line, step) ==
    IF LineLength(line) = 0 THEN <<>>
    ELSE LET distances == PyRange(0, LineLength(line) + step, step)
         IN  [k \in 1..Len(distances) |-> Interpolate(line, distances[k])]

\* the mean density over the edge's sample points; 0 for a zero-length edge
edge_kde_score(kde, line, step) ==
    LET pts == sample_points_along_line(line, step)
    IN  IF pts = <<>> THEN 0
        ELSE SumSeq([k \in 1..Len(pts) |-> Density(kde, pts[k])]) \div Len(pts)

\* an attribute value: a float num/den in memory, its decimal text once written
\* to GraphML
Num(n) == [text |-> FALSE, num |-> n, den |-> 1]

Text(value) == [text |-> TRUE, str |-> IntStr(value.num \div value.den)]

Put(f, key, value) == [x \in (DOMAIN f) \cup {key} |-> IF x = key THEN value ELSE f[x]]

SetEdgeAttributesReplacing(G, values, name) ==
    [G EXCEPT !.edges = [e \in 1..Len(G.edges) |->
        [G.edges[e] EXCEPT !.attrs = Put(<<>>, name, Num(values[e]))]]]

\* nx.set_edge_attributes(G, values, name)
SetEdgeAttributes(G, values, name) ==
    [G EXCEPT !.edges = [e \in 1..Len(G.edges) |->
        [G.edges[e] EXCEPT !.attrs = Put(@, name, Num(values[e]))]]]

\* ox.project_graph(G): a copy in the projected frame, attributes kept
ProjectGraph(G) == G

\* ox.save_graphml: every custom attribute value is written as text
SaveGraphml(G) ==
    [G EXCEPT !.edges = [e \in 1..Len(G.edges) |->
        [G.edges[e] EXCEPT !.attrs = [a \in DOMAIN @ |-> Text(@[a])]]]]

\* ox.load_graphml: length is typed, custom attributes stay text
LoadGraphml(file) == file

\* bucket_gdf: the rows of crime_data with Coordinates kept for time_of_day
BucketGdf(crime_data, time_of_day) ==
    LET Keep(row) == row.coords # None /\ InBucket(row.interval, time_of_day)
    IN  MaskedIdx([k \in DOMAIN crime_data |-> Keep(crime_data[k])], 1)

\* KernelDensity.fit raises on an empty bucket
KdeFits(crime_data, time_of_day) == BucketGdf(crime_data, time_of_day) # <<>>

KdeStep == 1

run_kde_on_graph(crime_data, time_of_day, G) ==
    LET kde == FitKde(crime_data, BucketGdf(crime_data, time_of_day))
        G_proj == ProjectGraph(G)
        kde_scores == [e \in 1..Len(G_proj.edges) |->
                          edge_kde_score(kde, G_proj.edges[e].geometry, KdeStep)]
    IN  SetEdgeAttributes(G_proj, kde_scores, create_attr_name(time_of_day))

\* the street graph stored at GRAPH_PATH: node coordinates, then the edges in
\* the order the graph lists them
NodeXY == <<<<1, 1>>, <<3, 1>>, <<3, 3>>, <<1, 3>>, <<5, 1>>>>

Nodes == DOMAIN NodeXY

Edge(u, v, key, length, geometry) ==
    [u |-> u, v |-> v, key |-> key, length |-> length, geometry |-> geometry,
     attrs |-> <<>>]

BaseGraph ==
    [edges |-> <<
        Edge(1, 2, 0, 4, <<<<1, 1>>, <<1, 0>>, <<3, 0>>, <<3, 1>>>>),
        Edge(1, 2, 1, 2, <<<<1, 1>>, <<3, 1>>>>),
        Edge(2, 3, 0, 2, <<<<3, 1>>, <<3, 3>>>>),
        Edge(1, 4, 0, 3, <<<<1, 1>>, <<0, 1>>, <<0, 3>>, <<1, 3>>>>),
        Edge(4, 3, 0, 2, <<<<1, 3>>, <<3, 3>>>>),
        Edge(3, 1, 0, 4, <<<<3, 3>>, <<3, 1>>, <<1, 1>>>>),
        Edge(4, 4, 0, 0, <<<<1, 3>>, <<1, 3>>>>),
        Edge(5, 2, 0, 2, <<<<5, 1>>, <<3, 1>>>>) >>]

CrimeRow(coords, interval, score) ==
    [coords |-> coords, interval |-> interval, score |-> score]

\* geocoded crime tables: Coordinates (lat, lon), "Interval of Day", "Crime Score"
CrimeDatasets == {
    << CrimeRow(Some(<<43, -69>>), <<"1","2","-","1","6">>, 5),
       CrimeRow(Some(<<45, -70>>), <<"8","-","1","2">>, 3),
       CrimeRow(Some(<<51, -62>>), <<"0","-","4">>, 1),
       CrimeRow(Some(<<45, -68>>), <<"1","2","-","1","6">>, -2) >>,
    << CrimeRow(Some(<<44, -68>>), <<"0","8","-","1","2">>, 2),
       CrimeRow(None, <<"8","-","1","2">>, 4),
       CrimeRow(Some(<<44, -70>>), <<" ","1","2","-","1","6"," ">>, 1) >>,
    << CrimeRow(Some(<<43, -69>>), <<"1","3","-","1","5">>, 2),
       CrimeRow(Some(<<45, -70>>), <<"1","2","-","1","6">>, 3) >> }

\* the hours the programs are run for
RequestedHours == {2, 9, 12, 14}

\* edge.get(attr, default)
Get(attrs, attr, default) == IF attr \in DOMAIN attrs THEN attrs[attr] ELSE default

\* coerce_kde_value: a float as it is, text parsed back to a number, 0.0 for
\* empty or unparseable text; never raises
coerce_kde_value(value) ==
    IF value.text
    THEN LET parsed_value == ParseInt(value.str)
         IN  IF parsed_value = None THEN 0 ELSE parsed_value[1]
    ELSE value.num \div value.den

MaxOf(S) == CHOOSE n \in S : \A k \in S : k <= n

RISK_COST == <<"r","i","s","k","_","c","o","s","t">>

\* add_risk_cost_weights(G, attr, alpha): risk_cost = length * (1 + alpha * risk / max_risk)
\* on every edge, max_risk being 1.0 when every risk is 0; the exact quotient
\* is kept as num/den
add_risk_cost_weights(G, attr, alpha) ==
    LET risk(e) == coerce_kde_value(Get(G.edges[e].attrs, attr, Num(0)))
        observed == MaxOf({risk(e) : e \in 1..Len(G.edges)})
        max_risk == IF observed = 0 THEN 1 ELSE observed
    IN  [G EXCEPT !.edges = [e \in 1..Len(G.edges) |->
            [G.edges[e] EXCEPT !.attrs =
                Put(@, RISK_COST,
                    [text |-> FALSE,
                     num |-> G.edges[e].length * (max_risk + alpha * risk(e)),
                     den |-> max_risk])]]]

(***************************************************************************)
(* The street-segment scorer of graph/create_graph.py                      *)
(***************************************************************************)
\* lookup: is the point inside the buffered bounding box of the segment u-v
lookup(coords, minx, miny, maxx, maxy) ==
    minx <= coords[1] /\ coords[1] <= maxx /\ miny <= coords[2] /\ coords[2] <= maxy

Min2(a, b) == IF a < b THEN a ELSE b

Max2(a, b) == IF a > b THEN a ELSE b

\* crimes_in_bbox: the rows (all columns present) inside the buffered bounding
\* box of the segment between the edge's end nodes
CrimesInBbox(edge, crime_data, bbox_buffer_size) ==
    LET u == NodeXY[edge.u]
        v == NodeXY[edge.v]
        Keep(row) ==
            /\ row.coords # None
            /\ lookup(ToCrs(row.coords[1][2], row.coords[1][1]),
                      Min2(u[1], v[1]) - bbox_buffer_size, Min2(u[2], v[2]) - bbox_buffer_size,
                      Max2(u[1], v[1]) + bbox_buffer_size, Max2(u[2], v[2]) + bbox_buffer_size)
    IN  MaskedIdx([k \in DOMAIN crime_data |-> Keep(crime_data[k])], 1)

\* crimes_in_time_window: of those, the rows time_in_interval keeps
CrimesInTimeWindow(edge, crime_data, time_of_day, bbox_buffer_size) ==
    LET in_bbox == CrimesInBbox(edge, crime_data, bbox_buffer_size)
        Keep(r) == time_in_interval(crime_data[r].interval, time_of_day)
        kept == MaskedIdx([k \in DOMAIN in_bbox |-> Keep(in_bbox[k])], 1)
    IN  [k \in 1..Len(kept) |-> in_bbox[kept[k]]]

\* the mean Crime Score of the kept rows, None when there is none
lookup_street_and_assign(edge, crime_data, time_of_day, bbox_buffer_size) ==
    LET rows == CrimesInTimeWindow(edge, crime_data, time_of_day, bbox_buffer_size)
    IN  IF Len(rows) = 0 THEN None
        ELSE Some([num |-> SumSeq([k \in 1..Len(rows) |-> crime_data[rows[k]].score]),
                   den |-> Len(rows)])

CRIME_SCORE == <<"c","r","i","m","e","_","s","c","o","r","e">>

assign_crime_score_to_street_segment(crime_data, G, time_of_day, bbox_buffer_size) ==
    [G EXCEPT !.edges = [e \in 1..Len(G.edges) |->
        [G.edges[e] EXCEPT !.attrs =
            Put(@, CRIME_SCORE,
                [text |-> FALSE,
                 score |-> lookup_street_and_assign(G.edges[e], crime_data, time_of_day,
                                                    bbox_buffer_size)])]]]

(***************************************************************************)
(* Route search and statistics: graph/main.py, graph/evaluate_routes.py    *)
(***************************************************************************)
\* convert_starting_and_end_coords: the graph nodes nearest, in the plane, to
\* the two geocoded addresses
NearestNodes(xy) ==
    LET d2(n) == (NodeXY[n][1] - xy[1]) * (NodeXY[n][1] - xy[1])
                 + (NodeXY[n][2] - xy[2]) * (NodeXY[n][2] - xy[2])
    IN  {n \in Nodes : \A k \in Nodes : d2(n) <= d2(k)}

convert_starting_and_end_coords(start_xy, end_xy) ==
    NearestNodes(start_xy) \X NearestNodes(end_xy)

\* G.get_edge_data(u, v): the parallel edges from u to v, in key order
get_edge_data(G, u, v) ==
    LET Keep(edge) == edge.u = u /\ edge.v = v
    IN  MaskedIdx([k \in DOMAIN G.edges |-> Keep(G.edges[k])], 1)

\* the weight the search gives the step u -> v: the least over the parallel
\* edges; weights are compared as numerators over the common denominator
LENGTH == <<"l","e","n","g","t","h">>

EdgeWeight(edge, weight) ==
    IF weight = LENGTH THEN edge.length ELSE Get(edge.attrs, weight, Num(1)).num

StepWeight(G, u, v, weight) ==
    LET par == get_edge_data(G, u, v)
    IN  CHOOSE x \in {EdgeWeight(G.edges[par[k]], weight) : k \in 1..Len(par)} :
            \A k \in 1..Len(par) : x <= EdgeWeight(G.edges[par[k]], weight)

RECURSIVE PathsFrom(_, _, _)
PathsFrom(G, prefix, target) ==
    LET last == prefix[Len(prefix)]
        seen == {prefix[k] : k \in 1..Len(prefix)}
        succ == {n \in Nodes \ seen : get_edge_data(G, last, n) # <<>>}
    IN  IF last = target THEN {prefix}
        ELSE UNION {PathsFrom(G, Append(prefix, n), target) : n \in succ}

PathWeight(G, path, weight) ==
    SumSeq([k \in 1..(Len(path) - 1) |-> StepWeight(G, path[k], path[k + 1], weight)])

\* nx.astar_path with the straight-line heuristic, which never overestimates on
\* this graph: the paths of least total weight (the set is empty for
\* NetworkXNoPath; which of several least paths is returned is the search's choice)
astar_path(G, source, target, weight) ==
    LET paths == PathsFrom(G, <<source>>, target)
    IN  {p \in paths : \A q \in paths : PathWeight(G, p, weight) <= PathWeight(G, q, weight)}

\* calc_route_stats: per step the FIRST of the parallel edges is counted
calc_route_stats(path, G, kde_attr) ==
    LET first(k) == G.edges[get_edge_data(G, path[k], path[k + 1])[1]]
        dist(k) == first(k).length
        risk(k) == coerce_kde_value(Get(first(k).attrs, kde_attr, Num(0)))
        steps == 1..(Len(path) - 1)
        total_dist == SumSeq([k \in steps |-> dist(k)])
        total_risk == SumSeq([k \in steps |-> risk(k) * dist(k)])
    IN  [distance_m |-> total_dist,
         avg_risk |-> IF total_dist > 0 THEN [num |-> total_risk, den |-> total_dist]
                      ELSE [num |-> 0, den |-> 1],
         max_risk |-> MaxOf({0} \cup {risk(k) : k \in steps}),
         total_risk_exposure |-> total_risk,
         num_edges |-> Len(path) - 1]

(***************************************************************************)
(* State.  One group of variables per component; each specification runs   *)
(* one component and leaves the other groups at their initial values.      *)
(***************************************************************************)
VARIABLES
    \* parser and sampler
    address,        \* the raw address string
    spacing,        \* the sampling interval
    parsed,         \* None, or Some(descriptor) once parse_block_address returned
    samples,        \* the sequence returned by generate_block_samples
    pcS,            \* "input" -> "parsed" -> "sampled"
    \* batch_geocode_addresses, one invocation per caller
    bRows,          \* addresses_df
    bI,             \* the loop variable i
    bPc,            \* "off", "loop", "try", "response", "finally", "done"
    bAll,           \* all_results
    bResp,          \* the response of the current batch's request
    bExc,           \* the exception in flight through the finally block
    bOut,           \* None, or Some(what the call returned or raised)
    disk,           \* the temporary files: a set of [name, rows, by]
    sent,           \* the requests the service has received, in order
    \* process_all_block_addresses
    groups,         \* the block addresses of block_groups, in order
    spacingP,       \* its spacing argument
    gIdx,           \* the group being processed
    curSamples,     \* sample_addresses of the current group
    pAll,           \* all_results
    pOut,           \* None, or Some(what the call returned or raised)
    pcP,            \* "off", "next_group", "geocoding", "done"
    \* graph annotator and route evaluator
    crimeData,      \* the geocoded crime table
    cache,          \* the GraphML files under CRIME_GRAPH_PATH, by attribute name
    held,           \* None, or Some(the graph the program holds and its attribute names)
    out,            \* what the last operation returned or raised
    pcG,            \* "off"; "session" for a client of the annotator; else the next
                    \* step of the route program: "create_graph",
                    \* "add_risk_cost_weights", "evaluate_route", "done"
    routeIdx,       \* the index into ROUTE_PAIRS of the next pair to evaluate
    \* parse_coordinates and the risk surface builder
    coordIn,        \* None (null) or Some(the coordinates string)
    coordOut,       \* None, or Some(<<lon, lat>>) once parse_coordinates returned
    kIn,            \* geocoded_crimes: rows of lat, lon, crime_score
    kOut,           \* None, or Some(what build_risk_kde returned or raised)
    \* the route search on its own
    located,        \* the nodes of the graph that carry x and y
    query,          \* <<source, target, weight>>
    found,          \* None, or Some(what nx.astar_path returned or raised)
    \* evaluation of the risk surface
    eOut,           \* None, or Some(what evaluate_kde_at_points returned or raised)
    \* geocoding.py: the cached geocoding of the aggregated crimes
    aggregated_crimes, \* the table geocode_aggregated_crimes is called with
    stored,         \* None, or Some(content of geocoded_aggregated_crimes.csv)
    returned        \* what the calls so far returned or raised, oldest first

samplerVars == <<address, spacing, parsed, samples, pcS>>

batchVars == <<bRows, bI, bPc, bAll, bResp, bExc, bOut, disk, sent>>

processVars == <<groups, spacingP, gIdx, curSamples, pAll, pOut, pcP>>

graphVars == <<crimeData, cache, held, out, pcG, routeIdx>>

surfaceVars == <<coordIn, coordOut, kIn, kOut>>

searchVars == <<located, query, found>>

evalVars == <<eOut>>

cacheVars == <<aggregated_crimes, stored, returned>>

restVars == <<searchVars, evalVars, cacheVars>>

vars == <<samplerVars, batchVars, processVars, graphVars, surfaceVars, restVars>>

SamplerIdle ==
    /\ address = <<>>
    /\ spacing = 1
    /\ parsed = None
    /\ samples = <<>>
    /\ pcS = "off"

BatchIdle ==
    /\ bRows = [p \in Callers |-> <<>>]
    /\ bI = [p \in Callers |-> 0]
    /\ bPc = [p \in Callers |-> "off"]
    /\ bAll = [p \in Callers |-> <<>>]
    /\ bResp = [p \in Callers |-> None]
    /\ bExc = [p \in Callers |-> None]
    /\ bOut = [p \in Callers |-> None]
    /\ disk = {}
    /\ sent = <<>>

ProcessIdle ==
    /\ groups = <<>>
    /\ spacingP = 1
    /\ gIdx = 1
    /\ curSamples = <<>>
    /\ pAll = <<>>
    /\ pOut = None
    /\ pcP = "off"

(***************************************************************************)
(* SpecSampler: parse_block_address followed by generate_block_samples, as *)
(* quick_test.py and geocode_block_samples chain them.                     *)
(***************************************************************************)
SurfaceIdle ==
    /\ coordIn = None
    /\ coordOut = None
    /\ kIn = <<>>
    /\ kOut = None

SearchIdle ==
    /\ located = {}
    /\ query = <<>>
    /\ found = None

EvalIdle == eOut = None

CacheIdle ==
    /\ aggregated_crimes = <<>>
    /\ stored = None
    /\ returned = <<>>

RestIdle ==
    /\ SearchIdle
    /\ EvalIdle
    /\ CacheIdle

GraphIdle ==
    /\ crimeData = <<>>
    /\ cache = <<>>
    /\ held = None
    /\ out = [op |-> "none"]
    /\ pcG = "off"
    /\ routeIdx = 1

InitSampler ==
    /\ address \in Addresses
    /\ spacing \in 1..MaxSpacing
    /\ parsed = None
    /\ samples = <<>>
    /\ pcS = "input"
    /\ BatchIdle
    /\ ProcessIdle
    /\ GraphIdle
    /\ SurfaceIdle
    /\ RestIdle

ParseBlockAddress ==
    /\ pcS = "input"
    /\ parsed' = Some(parse_block_address(address))
    /\ pcS' = "parsed"
    /\ UNCHANGED <<address, spacing, samples, batchVars, processVars, graphVars, surfaceVars, restVars>>

GenerateBlockSamples ==
    /\ pcS = "parsed"
    /\ samples' = generate_block_samples(parsed[1].block_num, parsed[1].street_name,
                                         parsed[1].direction, parsed[1].suffix, spacing)
    /\ pcS' = "sampled"
    /\ UNCHANGED <<address, spacing, parsed, batchVars, processVars, graphVars, surfaceVars, restVars>>

NextSampler == ParseBlockAddress \/ GenerateBlockSamples

SpecSampler == InitSampler /\ [][NextSampler]_vars


(***************************************************************************)
(* batch_geocode_addresses, step by step, for the invocation of caller p.  *)
(***************************************************************************)
Returned(table) == Some([kind |-> "returned", table |-> table, error |-> None])

Raised(exc) == Some([kind |-> "raised", table |-> <<>>, error |-> Some(exc)])

Exception(type, status, body) == [type |-> type, status |-> status, body |-> body]

NoBody == [text |-> "", table |-> <<>>]

BatchName(p) == TempCsvName(bI[p], BATCH_SIZE)

CurrentBatch(p) == BatchSlice(bRows[p], bI[p], BATCH_SIZE)

FilesNamed(name) == {f \in disk : f.name = name}

\* what the service may answer to an upload
ServiceResponses(uploaded) ==
    {[status |-> 200, body |-> [text |-> "csv", table |-> ResponseTable(uploaded, kinds, reversed)]] :
        kinds \in [1..Len(uploaded) -> ResultKinds], reversed \in BOOLEAN}
    \cup {[status |-> 200, body |-> [text |-> "not csv", table |-> <<>>]]}
    \cup {[status |-> s, body |-> [text |-> "error page", table |-> <<>>]] : s \in NonOkStatuses}

\* the call itself: num_rows, all_results = [] and the loop variable at 0
BatchCall(p, rows) ==
    /\ bRows' = [bRows EXCEPT ![p] = rows]
    /\ bI' = [bI EXCEPT ![p] = 0]
    /\ bPc' = [bPc EXCEPT ![p] = "loop"]
    /\ bAll' = [bAll EXCEPT ![p] = <<>>]
    /\ bResp' = [bResp EXCEPT ![p] = None]
    /\ bExc' = [bExc EXCEPT ![p] = None]
    /\ bOut' = [bOut EXCEPT ![p] = None]
    /\ UNCHANGED <<disk, sent>>

\* the loop is exhausted: the empty table, or the concatenation of all_results
BatchReturn(p) ==
    /\ bPc[p] = "loop"
    /\ bI[p] >= Len(bRows[p])
    /\ bOut' = [bOut EXCEPT ![p] = Returned(Concat(bAll[p]))]
    /\ bPc' = [bPc EXCEPT ![p] = "done"]
    /\ UNCHANGED <<samplerVars, processVars, graphVars, surfaceVars, restVars, bRows, bI, bAll, bResp, bExc, disk, sent>>

\* batch_df.to_csv(temp_csv) succeeds: the file holds the batch
Serialize(p) ==
    /\ bPc[p] = "loop"
    /\ bI[p] < Len(bRows[p])
    /\ disk' = (disk \ FilesNamed(BatchName(p)))
               \cup {[name |-> BatchName(p), rows |-> CurrentBatch(p), by |-> p]}
    /\ bPc' = [bPc EXCEPT ![p] = "try"]
    /\ UNCHANGED <<samplerVars, processVars, graphVars, surfaceVars, restVars, bRows, bI, bAll, bResp, bExc, bOut, sent>>

\* batch_df.to_csv(temp_csv) raises, before the try block is entered: either before
\* the file is opened, or while writing it, which leaves a truncated file
SerializeFails(p) ==
    /\ bPc[p] = "loop"
    /\ bI[p] < Len(bRows[p])
    /\ \E opened \in BOOLEAN :
          disk' = IF opened
                  THEN (disk \ FilesNamed(BatchName(p)))
                       \cup {[name |-> BatchName(p), rows |-> <<>>, by |-> p]}
                  ELSE disk
    /\ bOut' = [bOut EXCEPT ![p] = Raised(Exception("OSError", 0, NoBody))]
    /\ bPc' = [bPc EXCEPT ![p] = "done"]
    /\ UNCHANGED <<samplerVars, processVars, graphVars, surfaceVars, restVars, bRows, bI, bAll, bResp, bExc, sent>>

\* open(temp_csv) and requests.post: the file's content is uploaded, an answer arrives
Post(p) ==
    /\ bPc[p] = "try"
    /\ \E f \in FilesNamed(BatchName(p)) :
       \E r \in ServiceResponses(f.rows) :
          /\ sent' = Append(sent, [by |-> p, name |-> f.name, rows |-> f.rows,
                                   status |-> r.status, body |-> r.body])
          /\ bResp' = [bResp EXCEPT ![p] = Some(r)]
    /\ bPc' = [bPc EXCEPT ![p] = "response"]
    /\ UNCHANGED <<samplerVars, processVars, graphVars, surfaceVars, restVars, bRows, bI, bAll, bExc, bOut, disk>>

\* requests.post raises (no connection): no answer
PostFails(p) ==
    /\ bPc[p] = "try"
    /\ bExc' = [bExc EXCEPT ![p] = Some(Exception("ConnectionError", 0, NoBody))]
    /\ bPc' = [bPc EXCEPT ![p] = "finally"]
    /\ UNCHANGED <<samplerVars, processVars, graphVars, surfaceVars, restVars, bRows, bI, bAll, bResp, bOut, disk, sent>>

HandleResponseSwallowingErrors(p) ==
    /\ bPc[p] = "response"
    /\ bAll' = [bAll EXCEPT ![p] =
                   IF bResp[p][1].status = 200 /\ bResp[p][1].body.text = "csv"
                   THEN Append(@, bResp[p][1].body.table) ELSE @]
    /\ bExc' = [bExc EXCEPT ![p] = None]
    /\ bPc' = [bPc EXCEPT ![p] = "finally"]
    /\ UNCHANGED <<samplerVars, processVars, graphVars, surfaceVars, restVars, bRows, bI, bResp, bOut, disk, sent>>

\* status 200: parse and accumulate (the parse may raise); else raise RuntimeError
HandleResponse(p) ==
    /\ bPc[p] = "response"
    /\ LET r == bResp[p][1]
       IN  IF r.status = 200
           THEN IF r.body.text = "csv"
                THEN /\ bAll' = [bAll EXCEPT ![p] = Append(@, r.body.table)]
                     /\ bExc' = [bExc EXCEPT ![p] = None]
                ELSE /\ bExc' = [bExc EXCEPT ![p] = Some(Exception("ParserError", 0, NoBody))]
                     /\ UNCHANGED bAll
           ELSE /\ bExc' = [bExc EXCEPT ![p] =
                               Some(Exception("RuntimeError", r.status, r.body))]
                /\ UNCHANGED bAll
    /\ bPc' = [bPc EXCEPT ![p] = "finally"]
    /\ UNCHANGED <<samplerVars, processVars, graphVars, surfaceVars, restVars, bRows, bI, bResp, bOut, disk, sent>>

\* finally: unlink the file if it exists; then the exception propagates, or the
\* loop goes on to the next batch
Finally(p) ==
    /\ bPc[p] = "finally"
    /\ disk' = disk \ FilesNamed(BatchName(p))
    /\ IF bExc[p] # None
       THEN /\ bOut' = [bOut EXCEPT ![p] = Raised(bExc[p][1])]
            /\ bPc' = [bPc EXCEPT ![p] = "done"]
            /\ UNCHANGED bI
       ELSE /\ bI' = [bI EXCEPT ![p] = @ + BATCH_SIZE]
            /\ bPc' = [bPc EXCEPT ![p] = "loop"]
            /\ UNCHANGED bOut
    /\ UNCHANGED <<samplerVars, processVars, graphVars, surfaceVars, restVars, bRows, bAll, bResp, bExc, sent>>

(***************************************************************************)
(* process_all_block_addresses: for each block group geocode_block_samples *)
(* (parse, sample, batch_geocode_addresses, join), then concat and filter. *)
(***************************************************************************)
InitProcess ==
    /\ groups \in GroupLists
    /\ spacingP \in GeoSpacings
    /\ gIdx = 1
    /\ curSamples = <<>>
    /\ pAll = <<>>
    /\ pOut = None
    /\ pcP = "next_group"
    /\ BatchIdle
    /\ SamplerIdle
    /\ GraphIdle
    /\ SurfaceIdle
    /\ RestIdle

\* geocode_block_samples up to its call of batch_geocode_addresses; an unsamplable
\* address yields an empty frame, which the loop does not append
StartGroup ==
    /\ pcP = "next_group"
    /\ gIdx <= Len(groups)
    /\ LET d == parse_block_address(groups[gIdx])
           s == generate_block_samples(d.block_num, d.street_name, d.direction,
                                       d.suffix, spacingP)
       IN  IF d.block_num = None \/ d.block_num = Some(0) \/ s = <<>>
           THEN /\ gIdx' = gIdx + 1
                /\ UNCHANGED <<curSamples, pcP, batchVars>>
           ELSE /\ curSamples' = s
                /\ pcP' = "geocoding"
                /\ BatchCall(1, GeocodingDf(s))
                /\ UNCHANGED gIdx
    /\ UNCHANGED <<groups, spacingP, pAll, pOut, samplerVars, graphVars, surfaceVars, restVars>>

\* the rest of geocode_block_samples and the loop body of process_all_block_addresses
JoinResults ==
    /\ pcP = "geocoding"
    /\ bPc[1] = "done"
    /\ bOut[1][1].kind = "returned"
    /\ LET res == JoinedResults(groups[gIdx], curSamples, bOut[1][1].table)
       IN  pAll' = IF res = <<>> THEN pAll ELSE Append(pAll, res)
    /\ gIdx' = gIdx + 1
    /\ pcP' = "next_group"
    /\ bPc' = [bPc EXCEPT ![1] = "off"]
    /\ UNCHANGED <<groups, spacingP, curSamples, pOut, samplerVars, graphVars, surfaceVars, restVars,
                   bRows, bI, bAll, bResp, bExc, bOut, disk, sent>>

\* an exception of batch_geocode_addresses is caught nowhere
Propagate ==
    /\ pcP = "geocoding"
    /\ bPc[1] = "done"
    /\ bOut[1][1].kind = "raised"
    /\ pOut' = bOut[1]
    /\ pcP' = "done"
    /\ UNCHANGED <<groups, spacingP, gIdx, curSamples, pAll, samplerVars, graphVars, surfaceVars, restVars, batchVars>>

\* after the loop: concat, filter, return
Finish ==
    /\ pcP = "next_group"
    /\ gIdx > Len(groups)
    /\ pOut' = Returned(SelectRows(Concat(pAll)))
    /\ pcP' = "done"
    /\ UNCHANGED <<groups, spacingP, gIdx, curSamples, pAll, samplerVars, graphVars, surfaceVars, restVars, batchVars>>

NextGeocoder ==
    \/ StartGroup
    \/ JoinResults
    \/ Propagate
    \/ Finish
    \/ BatchReturn(1)
    \/ Serialize(1)
    \/ SerializeFails(1)
    \/ Post(1)
    \/ PostFails(1)
    \/ HandleResponse(1)
    \/ Finally(1)

SpecGeocoder == InitProcess /\ [][NextGeocoder]_vars

(***************************************************************************)
(* The graph annotator as a client session drives it (SpecGraph), and the  *)
(* route program of graph/evaluate_routes.py (SpecRoute): create_graph,    *)
(* add_risk_cost_weights, then evaluate_route for each of ROUTE_PAIRS.  The *)
(* files under CRIME_GRAPH_PATH outlive a run of the program.              *)
(***************************************************************************)
InitGraph ==
    /\ crimeData \in CrimeDatasets
    /\ cache = <<>>
    /\ held = None
    /\ out = [op |-> "none"]
    /\ pcG = "session"
    /\ routeIdx = 1
    /\ SamplerIdle
    /\ BatchIdle
    /\ ProcessIdle
    /\ SurfaceIdle
    /\ RestIdle

InitRoute ==
    /\ crimeData \in CrimeDatasets
    /\ cache = <<>>
    /\ held = None
    /\ out = [op |-> "none"]
    /\ pcG = "create_graph"
    /\ routeIdx = 1
    /\ SamplerIdle
    /\ BatchIdle
    /\ ProcessIdle
    /\ SurfaceIdle
    /\ RestIdle

Holding(G, kde_attr) ==
    Some([G |-> G, kde_attr |-> kde_attr, risk_attr |-> None, alpha |-> None])

\* the graph create_graph annotates: always the one stored at GRAPH_PATH
SourceGraphAccumulating(files, current) ==
    IF current = None THEN LoadGraphml(SaveGraphml(BaseGraph)) ELSE current[1].G

SourceGraph(files, current) == LoadGraphml(SaveGraphml(BaseGraph))

\* no artifact is ever found
PathExistsNever(attr_name) == FALSE

\* path.exists() for path = CRIME_GRAPH_PATH / f"{attr_name}.graphml"
PathExists(attr_name) == attr_name \in DOMAIN cache

\* create_graph(crime_data, time_of_day): the stored artifact of the bucket when
\* there is one; else annotate the base graph, store it, return it.  An empty
\* bucket makes KernelDensity.fit raise before anything is stored, which ends
\* the route program.
CreateGraph(time_of_day) ==
    LET attr_name == create_attr_name(time_of_day)
        After(ok) == IF pcG = "session" THEN "session"
                     ELSE IF ok THEN "add_risk_cost_weights" ELSE "done"
    IN  /\ pcG \in {"session", "create_graph"}
        /\ IF PathExists(attr_name)
           THEN /\ held' = Holding(LoadGraphml(cache[attr_name]), attr_name)
                /\ out' = [op |-> "create_graph", hour |-> time_of_day,
                           attr_name |-> attr_name, computed |-> FALSE]
                /\ pcG' = After(TRUE)
                /\ UNCHANGED cache
           ELSE IF KdeFits(crimeData, time_of_day)
           THEN LET G_proj == run_kde_on_graph(crimeData, time_of_day,
                                               SourceGraph(cache, held))
                IN  /\ cache' = Put(cache, attr_name, SaveGraphml(G_proj))
                    /\ held' = Holding(G_proj, attr_name)
                    /\ out' = [op |-> "create_graph", hour |-> time_of_day,
                               attr_name |-> attr_name, computed |-> TRUE]
                    /\ pcG' = After(TRUE)
           ELSE /\ out' = [op |-> "create_graph", hour |-> time_of_day,
                           exc |-> "ValueError"]
                /\ pcG' = After(FALSE)
                /\ UNCHANGED <<cache, held>>
        /\ UNCHANGED <<crimeData, routeIdx, samplerVars, batchVars, processVars, surfaceVars, restVars>>

\* run_kde_on_graph(crime_data, time_of_day, G) on the graph the client holds;
\* the annotated copy it returns becomes the held graph
RunKdeOnGraph(time_of_day) ==
    /\ pcG = "session"
    /\ held # None
    /\ IF KdeFits(crimeData, time_of_day)
       THEN /\ held' = Some([held[1] EXCEPT
                                !.G = run_kde_on_graph(crimeData, time_of_day, @),
                                !.kde_attr = create_attr_name(time_of_day)])
            /\ out' = [op |-> "run_kde_on_graph", hour |-> time_of_day,
                       offered |-> {r \in DOMAIN crimeData : crimeData[r].coords # None},
                       kept |-> LET b == BucketGdf(crimeData, time_of_day)
                                IN  {b[k] : k \in DOMAIN b}]
       ELSE /\ out' = [op |-> "run_kde_on_graph", hour |-> time_of_day,
                       exc |-> "ValueError"]
            /\ UNCHANGED held
    /\ UNCHANGED <<crimeData, cache, pcG, routeIdx, samplerVars, batchVars, processVars, surfaceVars, restVars>>

BufferSizes == {1}

\* assign_crime_score_to_street_segment: crime_score is set on every edge of G
\* in place; offered/kept are the rows its time filter saw and kept
AssignCrimeScoreToStreetSegment(time_of_day, bbox_buffer_size) ==
    /\ pcG = "session"
    /\ held # None
    /\ LET G == held[1].G
           Range(s) == {s[k] : k \in DOMAIN s}
       IN  /\ held' = Some([held[1] EXCEPT !.G =
                   assign_crime_score_to_street_segment(crimeData, G, time_of_day,
                                                        bbox_buffer_size)])
           /\ out' = [op |-> "assign_crime_score_to_street_segment",
                      hour |-> time_of_day,
                      offered |-> UNION {Range(CrimesInBbox(G.edges[e], crimeData,
                                                            bbox_buffer_size)) :
                                         e \in DOMAIN G.edges},
                      kept |-> UNION {Range(CrimesInTimeWindow(G.edges[e], crimeData,
                                                               time_of_day, bbox_buffer_size)) :
                                      e \in DOMAIN G.edges}]
    /\ UNCHANGED <<crimeData, cache, pcG, routeIdx, samplerVars, batchVars, processVars, surfaceVars, restVars>>

NextGraph ==
    \/ \E time_of_day \in RequestedHours : CreateGraph(time_of_day)
    \/ \E time_of_day \in RequestedHours : RunKdeOnGraph(time_of_day)
    \/ \E time_of_day \in RequestedHours, bbox_buffer_size \in BufferSizes :
          AssignCrimeScoreToStreetSegment(time_of_day, bbox_buffer_size)

SpecGraph == InitGraph /\ [][NextGraph]_vars

MaxAlpha == 3

\* risk_attr = add_risk_cost_weights(G, kde_attr, alpha)
AddRiskCostWeights(alpha) ==
    /\ pcG = "add_risk_cost_weights"
    /\ held' = Some([held[1] EXCEPT
                        !.G = add_risk_cost_weights(@, held[1].kde_attr, alpha),
                        !.risk_attr = Some(RISK_COST),
                        !.alpha = Some(alpha)])
    /\ out' = [op |-> "add_risk_cost_weights", risk_attr |-> RISK_COST]
    /\ pcG' = "evaluate_route"
    /\ routeIdx' = 1
    /\ UNCHANGED <<crimeData, cache, samplerVars, batchVars, processVars, surfaceVars, restVars>>

\* a quotient num / den of the analysis, den # 0
Quotient(num, den) == [num |-> num, den |-> den]

\* a / b of two floats: None is ZeroDivisionError
Divide(num, den) == IF den = 0 THEN None ELSE Some(Quotient(num, den))

\* (1 - safe / fast) * 100 for two quotients, fast > 0
Reduction(safe, fast) ==
    Quotient(100 * (fast.num * safe.den - safe.num * fast.den), fast.num * safe.den)

\* time_min = (total_dist / 1000) / 5.0 * 60, as a quotient
time_min(stats) == Quotient(60 * stats.distance_m, 5000)

\* the comparison metrics of evaluate_route; each division has its guard
comparison_metrics(fast_stats, safe_stats) ==
    LET extra_dist == safe_stats.distance_m - fast_stats.distance_m
        extra_time == time_min(safe_stats).num - time_min(fast_stats).num
    IN  Some([distance_increase |->
                  IF fast_stats.distance_m > 0
                  THEN Quotient(100 * extra_dist, fast_stats.distance_m) ELSE Quotient(0, 1),
              time_increase |->
                  IF time_min(fast_stats).num > 0
                  THEN Quotient(100 * extra_time, time_min(fast_stats).num) ELSE Quotient(0, 1),
              risk_reduction |->
                  IF fast_stats.avg_risk.num > 0
                  THEN Reduction(safe_stats.avg_risk, fast_stats.avg_risk) ELSE Quotient(0, 1),
              exposure_reduction |->
                  IF fast_stats.total_risk_exposure > 0
                  THEN Reduction(Quotient(safe_stats.total_risk_exposure, 1),
                                 Quotient(fast_stats.total_risk_exposure, 1))
                  ELSE Quotient(0, 1)])

\* the analysis block of the single-route program: the three reductions have
\* their guards, the two percentages of the trade-off lines divide directly
\* (None is ZeroDivisionError)
analysis(fastest_stats, astar_stats) ==
    LET extra_dist == astar_stats.distance_m - fastest_stats.distance_m
        extra_time == time_min(astar_stats).num - time_min(fastest_stats).num
        distance_increase == Divide(100 * extra_dist, fastest_stats.distance_m)
        time_increase == Divide(100 * extra_time, time_min(fastest_stats).num)
    IN  IF distance_increase = None \/ time_increase = None THEN None
        ELSE Some([distance_increase |-> distance_increase[1],
                   time_increase |-> time_increase[1],
                   risk_reduction |->
                       IF fastest_stats.avg_risk.num > 0
                       THEN Reduction(astar_stats.avg_risk, fastest_stats.avg_risk)
                       ELSE Quotient(0, 1),
                   max_risk_reduction |->
                       IF fastest_stats.max_risk > 0
                       THEN Reduction(Quotient(astar_stats.max_risk, 1),
                                      Quotient(fastest_stats.max_risk, 1))
                       ELSE Quotient(0, 1),
                   exposure_reduction |->
                       IF fastest_stats.total_risk_exposure > 0
                       THEN Reduction(Quotient(astar_stats.total_risk_exposure, 1),
                                      Quotient(fastest_stats.total_risk_exposure, 1))
                       ELSE Quotient(0, 1)])

\* the address pairs of the program, as points of the graph's frame
ROUTE_PAIRS ==
    << <<<<1, 1>>, <<4, 4>>>>, <<<<3, 0>>, <<1, 1>>>>, <<<<0, 3>>, <<0, 4>>>>,
       <<<<1, 1>>, <<3, 0>>>>, <<<<1, 0>>, <<6, 1>>>> >>

\* evaluate_route(start_addr, end_addr, G, kde_attr, risk_attr) for the next
\* pair; NetworkXNoPath ends the program
EvaluateRoute ==
    /\ pcG = "evaluate_route"
    /\ routeIdx <= Len(ROUTE_PAIRS)
    /\ \E nodes \in convert_starting_and_end_coords(ROUTE_PAIRS[routeIdx][1],
                                                    ROUTE_PAIRS[routeIdx][2]) :
        LET G == held[1].G
            safest == astar_path(G, nodes[1], nodes[2], held[1].risk_attr[1])
            fastest == astar_path(G, nodes[1], nodes[2], LENGTH)
        IN  IF safest = {} \/ fastest = {}
            THEN /\ out' = [op |-> "evaluate_route", orig_node |-> nodes[1],
                            dest_node |-> nodes[2], exc |-> "NetworkXNoPath"]
                 /\ pcG' = "done"
                 /\ UNCHANGED routeIdx
            ELSE /\ \E safest_path \in safest, fastest_path \in fastest :
                      LET fast_stats == calc_route_stats(fastest_path, G, held[1].kde_attr)
                          safe_stats == calc_route_stats(safest_path, G, held[1].kde_attr)
                      IN  out' = [op |-> "evaluate_route", orig_node |-> nodes[1],
                                  dest_node |-> nodes[2],
                                  safest_path |-> safest_path, fastest_path |-> fastest_path,
                                  fast_stats |-> fast_stats,
                                  safe_stats |-> safe_stats,
                                  metrics |-> comparison_metrics(fast_stats, safe_stats)[1]]
                 /\ routeIdx' = routeIdx + 1
                 /\ pcG' = IF routeIdx = Len(ROUTE_PAIRS) THEN "done" ELSE "evaluate_route"
    /\ UNCHANGED <<crimeData, cache, held, samplerVars, batchVars, processVars, surfaceVars, restVars>>

\* the single-route program after add_risk_cost_weights: both searches, the
\* statistics and the analysis for its one configured pair of addresses, then
\* the program ends; NetworkXNoPath and ZeroDivisionError end it too
SingleRoute ==
    /\ pcG = "evaluate_route"
    /\ routeIdx = 1
    /\ \E pair \in DOMAIN ROUTE_PAIRS :
       \E nodes \in convert_starting_and_end_coords(ROUTE_PAIRS[pair][1],
                                                    ROUTE_PAIRS[pair][2]) :
        LET G == held[1].G
            astar == astar_path(G, nodes[1], nodes[2], held[1].risk_attr[1])
            fastest == astar_path(G, nodes[1], nodes[2], LENGTH)
        IN  IF astar = {} \/ fastest = {}
            THEN out' = [op |-> "single_route", orig_node |-> nodes[1],
                         dest_node |-> nodes[2], exc |-> "NetworkXNoPath"]
            ELSE \E safest_path \in astar, fastest_path \in fastest :
                   LET astar_stats == calc_route_stats(safest_path, G, held[1].kde_attr)
                       fastest_stats == calc_route_stats(fastest_path, G, held[1].kde_attr)
                       metrics == analysis(fastest_stats, astar_stats)
                   IN  IF metrics = None
                       THEN out' = [op |-> "single_route", orig_node |-> nodes[1],
                                    dest_node |-> nodes[2],
                                    fast_stats |-> fastest_stats,
                                    safe_stats |-> astar_stats,
                                    exc |-> "ZeroDivisionError"]
                       ELSE out' = [op |-> "single_route", orig_node |-> nodes[1],
                                    dest_node |-> nodes[2],
                                    safest_path |-> safest_path,
                                    fastest_path |-> fastest_path,
                                    fast_stats |-> fastest_stats,
                                    safe_stats |-> astar_stats,
                                    metrics |-> metrics[1]]
    /\ pcG' = "done"
    /\ UNCHANGED <<crimeData, cache, held, routeIdx, samplerVars, batchVars, processVars, surfaceVars, restVars>>

\* the program is run again: nothing in memory survives, the stored files do
RunAgain ==
    /\ pcG = "done"
    /\ pcG' = "create_graph"
    /\ held' = None
    /\ out' = [op |-> "none"]
    /\ routeIdx' = 1
    /\ UNCHANGED <<crimeData, cache, samplerVars, batchVars, processVars, surfaceVars, restVars>>

NextRoute ==
    \/ \E time_of_day \in RequestedHours : CreateGraph(time_of_day)
    \/ \E alpha \in 0..MaxAlpha : AddRiskCostWeights(alpha)
    \/ EvaluateRoute
    \/ SingleRoute
    \/ RunAgain

SpecRoute == InitRoute /\ [][NextRoute]_vars

(***************************************************************************)
(* Claims about the parser and the sampler (SpecSampler).                  *)
(***************************************************************************)
CeilDiv(a, b) == (a + b - 1) \div b

\* the sampler has run on a descriptor of a block-style address with an
\* integer block number > 0
SampledValidBlock ==
    /\ pcS = "sampled"
    /\ ~parsed[1].is_intersection
    /\ parsed[1].block_num # None
    /\ parsed[1].block_num[1] > 0

\* the leading numeric token of consecutive samples increases by exactly spacing
StepsBySpacing ==
    \A k \in 1..(Len(samples) - 1) :
        /\ LeadingNumber(samples[k]) # None
        /\ LeadingNumber(samples[k + 1]) # None
        /\ LeadingNumber(samples[k + 1])[1] = LeadingNumber(samples[k])[1] + spacing

C5_NoTempFileLeft ==
    \A p \in Callers :
        bPc[p] = "done" => ~(\E f \in disk : f.by = p)

\* the request with index k was answered with a non-200 status
Refused(k) == sent[k].status # 200

\* C6: if the service answers a batch with a non-200 status, the call fails with an
\* error carrying that status and the response body, the batch is not re-sent, no
\* request is issued for a later batch, and no partial result table is returned.
C6_NonOkIsHardFailure ==
    \A k \in 1..Len(sent) :
        Refused(k) =>
            LET p == sent[k].by
            IN  /\ \A j \in (k + 1)..Len(sent) : sent[j].by # p
                /\ bPc[p] \in {"response", "finally", "done"}
                /\ bPc[p] = "finally" =>
                       bExc[p] = Some(Exception("RuntimeError", sent[k].status, sent[k].body))
                /\ bPc[p] = "done" =>
                       /\ bOut[p][1].kind = "raised"
                       /\ bOut[p][1].error[1].status = sent[k].status
                       /\ bOut[p][1].error[1].body = sent[k].body
                /\ pcP = "done" =>
                       /\ pOut[1].kind = "raised"
                       /\ pOut[1].error[1].status = sent[k].status

\* the first of two batches was refused: the call raised with that status, the
\* second batch was never requested, the temporary file is gone
C6_Witness ==
    /\ Len(bRows[1]) > BATCH_SIZE
    /\ Len(sent) = 1
    /\ sent[1].status = 429
    /\ bPc[1] = "done"
    /\ bOut[1] = Raised(Exception("RuntimeError", 429, sent[1].body))
    /\ disk = {}

\* a definite match with coordinates
KeepMatchOnly(row) ==
    /\ row.geocode_status = "Match"
    /\ row.lat # None
    /\ row.lon # None

\* C10 as stated: the returned point set contains only results with status Match
\* and non-null latitude and longitude; Tie and No_Match results are filtered out.
C10_Original ==
    (pcP = "done" /\ pOut[1].kind = "returned") =>
        \A k \in 1..Len(pOut[1].table) : KeepMatchOnly(pOut[1].table[k])

\* C10 as amended: the returned point set contains only results with status Match
\* or Tie and non-null latitude and longitude; No_Match results and results
\* without coordinates are filtered out.
C10_MatchOrTieWithCoordinates ==
    (pcP = "done" /\ pOut[1].kind = "returned") =>
        \A k \in 1..Len(pOut[1].table) :
            /\ pOut[1].table[k].geocode_status \in {"Match", "Tie"}
            /\ pOut[1].table[k].geocode_status # "No_Match"
            /\ pOut[1].table[k].lat # None
            /\ pOut[1].table[k].lon # None

\* a run that returned a Match and dropped another result
C10_Witness ==
    /\ pcP = "done"
    /\ pOut[1].kind = "returned"
    /\ Len(pOut[1].table) < Len(Concat(pAll))
    /\ \E k \in 1..Len(pOut[1].table) : pOut[1].table[k].geocode_status = "Match"
    /\ \E k \in 1..Len(Concat(pAll)) :
          Concat(pAll)[k].geocode_status = "Tie" /\ Concat(pAll)[k].lat = None


(***************************************************************************)
(* Claims about the graph annotator (SpecGraph)                            *)
(***************************************************************************)
EdgesOf(h) == h[1].G.edges

ScoreAttrs(edge) == (DOMAIN edge.attrs) \cap AttrNames

Succeeded(op) == out.op = op /\ "exc" \notin DOMAIN out

\* C7: a run of run_kde_on_graph for hour h on the held graph changes, on every
\* edge, only the attribute named for h's bucket: every other attribute the
\* edge carried is still there with its previous value, no other attribute
\* appears, and the length and the edge list are as before.
C7_OnlyOwnBucketChanges ==
    [][\A h \in RequestedHours :
         (RunKdeOnGraph(h) /\ KdeFits(crimeData, h)) =>
            /\ Len(EdgesOf(held')) = Len(EdgesOf(held))
            /\ \A e \in DOMAIN EdgesOf(held) :
                LET before == EdgesOf(held)[e]
                    after == EdgesOf(held')[e]
                IN  /\ after.length = before.length
                    /\ DOMAIN after.attrs = (DOMAIN before.attrs) \cup {create_attr_name(h)}
                    /\ \A a \in (DOMAIN before.attrs) \ {create_attr_name(h)} :
                          after.attrs[a] = before.attrs[a]]_vars

\* run_kde_on_graph has annotated a graph that carried another bucket's scores
C7_Witness ==
    /\ Succeeded("run_kde_on_graph")
    /\ \E a \in ScoreAttrs(EdgesOf(held)[1]) : a # create_attr_name(out.hour)

C9_HalfOpenEverywhere ==
    (Succeeded(out.op) /\ "kept" \in DOMAIN out) =>
        \A r \in out.offered :
            LET b == IntervalBounds(crimeData[r].interval)
            IN  (r \in out.kept) <=> (b[1][1] <= out.hour /\ out.hour < b[2][1])

C2_RiskPathNoShorter ==
    Succeeded("evaluate_route") =>
        /\ out.safe_stats.distance_m >= out.fast_stats.distance_m
        /\ (out.safe_stats.distance_m = out.fast_stats.distance_m
               => out.safest_path = out.fastest_path)


(***************************************************************************)
(* Claims about the address parser (SpecSampler)                           *)
(***************************************************************************)
\* the address as the parser normalizes it, and its tokens once BLOCK is removed
Normalized == Upper(Strip(address))

Tokens == SplitWs(RemoveAll(Normalized, BLOCK))

HasBlock == Contains(Normalized, BLOCK)

HasAmp == Contains(Normalized, AMP)

KnownDirections ==
    {<<"N">>, <<"S">>, <<"E">>, <<"W">>, <<"N","E">>, <<"N","W">>, <<"S","E">>, <<"S","W">>}

KnownSuffixes ==
    {<<"S","T">>, <<"A","V","E">>, <<"R","D">>, <<"B","L","V","D">>, <<"D","R">>,
     <<"L","N">>, <<"W","A","Y">>, <<"P","L">>, <<"C","I","R">>, <<"C","T">>}

\* the descriptor the token roles of C11 give: first token the number, second
\* the direction when it is one, the token at the end the suffix when it is one
\* (and, with after_number, only when it comes after number and direction),
\* the tokens between joined by single spaces
ByTokenRoles(after_number) ==
    LET n == Len(Tokens)
        has_dir == n >= 2 /\ Tokens[2] \in KnownDirections
        first_free == IF has_dir THEN 3 ELSE 2
        has_suffix == /\ n >= 1
                      /\ Tokens[n] \in KnownSuffixes
                      /\ (after_number => n >= first_free)
        last_free == IF has_suffix THEN n - 1 ELSE n
    IN  [block_num |-> IF n = 0 THEN None ELSE ParseInt(Tokens[1]),
         direction |-> IF has_dir THEN Tokens[2] ELSE <<>>,
         suffix |-> IF has_suffix THEN Tokens[n] ELSE <<>>,
         street_name |-> IF last_free >= first_free
                         THEN Join(SubSeq(Tokens, first_free, last_free), SP) ELSE <<>>,
         is_intersection |-> FALSE]

\* C11 as stated: every address containing BLOCK is parsed by token roles, the
\* last token being the suffix whenever it is in the suffix set.
C11_Original ==
    (pcS # "input" /\ HasBlock) => parsed[1] = ByTokenRoles(FALSE)

\* C11: every address that contains BLOCK and no "&" is parsed by token roles:
\* is_intersection false, block_num the integer value of the first token (null
\* when it is no integer or there is no token), direction the second token when
\* it is a direction, suffix the last token when it is a suffix and comes after
\* the number and the direction, street_name the tokens between joined by
\* single spaces; "800 BLOCK WASHINGTON ST" gives 800, WASHINGTON, "", ST.
C11_BlockStyleByTokenRoles ==
    /\ (pcS # "input" /\ HasBlock /\ ~HasAmp) => parsed[1] = ByTokenRoles(TRUE)
    /\ (pcS # "input"
        /\ address = <<"8","0","0"," ","B","L","O","C","K"," ",
                       "W","A","S","H","I","N","G","T","O","N"," ","S","T">>) =>
          parsed[1] = [block_num |-> Some(800),
                       street_name |-> <<"W","A","S","H","I","N","G","T","O","N">>,
                       direction |-> <<>>, suffix |-> <<"S","T">>,
                       is_intersection |-> FALSE]

\* "20 BLOCK NE OLD POST RD" has been parsed: direction NE, a two-token street
\* name, suffix RD
C11_Witness ==
    /\ pcS = "parsed"
    /\ HasBlock
    /\ parsed[1].block_num = Some(20)
    /\ parsed[1].direction = <<"N","E">>
    /\ parsed[1].street_name = <<"O","L","D"," ","P","O","S","T">>
    /\ parsed[1].suffix = <<"R","D">>

\* C12: when the first token of a block-style address has a character that is
\* no decimal digit, block_num is null and the sampler generates no samples.
C12_NonDigitGivesNull ==
    (/\ pcS # "input"
     /\ HasBlock
     /\ Tokens # <<>>
     /\ \E i \in 1..Len(Tokens[1]) : ~IsDigit(Tokens[1][i])) =>
        /\ parsed[1].block_num = None
        /\ pcS = "sampled" => samples = <<>>

\* C13: an address without BLOCK whose relevant segment (the part before the
\* first "&", or the whole address) has at least two tokens and ends in a known
\* suffix gets that suffix and the preceding tokens as street_name; an
\* intersection has is_intersection true and block_num null.
C13_TrailingSuffixExtracted ==
    (pcS # "input" /\ ~HasBlock) =>
        LET segment == IF HasAmp THEN Strip(SplitOn(Normalized, "&")[1]) ELSE Normalized
            toks == SplitWs(segment)
            n == Len(toks)
        IN  /\ (n >= 2 /\ toks[n] \in KnownSuffixes) =>
                  /\ parsed[1].suffix = toks[n]
                  /\ parsed[1].street_name = Join(SubSeq(toks, 1, n - 1), SP)
            /\ HasAmp => (parsed[1].is_intersection /\ parsed[1].block_num = None)

NoStraySpaces(s) ==
    /\ s # <<>>
    /\ s[1] # " "
    /\ s[Len(s)] # " "
    /\ \A i \in 1..(Len(s) - 1) : ~(s[i] = " " /\ s[i + 1] = " ")

\* C14: every sample generated from a descriptor with a non-null, non-zero
\* block_num has no leading, trailing or doubled space.
C14_SingleSpaceJoins ==
    (/\ pcS = "sampled"
     /\ parsed[1].block_num # None
     /\ parsed[1].block_num # Some(0)) =>
        \A k \in 1..Len(samples) : NoStraySpaces(samples[k])

\* C15: parse_block_address returns, for every input string, a descriptor with
\* the five fields: block_num null or an integer, three strings and a flag.
C15_ParserIsTotal ==
    pcS # "input" =>
        /\ parsed # None
        /\ DOMAIN parsed[1] =
              {"block_num", "street_name", "direction", "suffix", "is_intersection"}
        /\ parsed[1].block_num = None \/ parsed[1].block_num[1] \in Int
        /\ parsed[1].is_intersection \in BOOLEAN
        /\ parsed[1].direction \in KnownDirections \cup {<<>>}
        /\ parsed[1].suffix \in KnownSuffixes \cup {<<>>}

\* the degenerate inputs "", "&", "BLOCK" and a lower-case address have been parsed
C15_Witness ==
    /\ pcS = "parsed"
    /\ address \in {<<>>, <<"&">>, <<"B","L","O","C","K">>, <<"b","l","o","c","k">>}
    /\ parsed[1].street_name = <<>>


(***************************************************************************)
(* Claims about geocode_block_samples (SpecGeocoder)                       *)
(***************************************************************************)
\* C16: for a block address whose block_num is null or zero,
\* generate_block_samples returns the empty sequence, and geocode_block_samples
\* returns its empty table without calling batch_geocode_addresses: no request
\* is sent, no file is written, and the caller's loop has nothing to append.
C16_UnsamplableIssuesNoRequest ==
    [][(/\ pcP = "next_group"
        /\ gIdx <= Len(groups)
        /\ parse_block_address(groups[gIdx]).block_num \in {None, Some(0)}
        /\ StartGroup) =>
            LET d == parse_block_address(groups[gIdx])
            IN  /\ generate_block_samples(d.block_num, d.street_name, d.direction,
                                          d.suffix, spacingP) = <<>>
                /\ sent' = sent
                /\ disk' = disk
                /\ bPc' = bPc
                /\ pAll' = pAll
                /\ gIdx' = gIdx + 1]_vars

\* the group "0 BLOCK ELM", or the direct street reference "MAIN ST", has just
\* been passed over
C16_Witness ==
    /\ pcP = "next_group"
    /\ gIdx > 1
    /\ parse_block_address(groups[gIdx - 1]).block_num \in {None, Some(0)}
    /\ bPc[1] = "off"


(***************************************************************************)
(* parse_coordinates on its own (SpecCoordinates): the strings the         *)
(* geocoding response can carry in its coordinates column.                 *)
(***************************************************************************)
\* parts that are decimal numbers, with the value float() gives them
NumberParts == {
    [text |-> <<"-", "7", "1", ".", "0", "5">>, value |-> [mant |-> -7105, frac |-> 2]],
    [text |-> <<"4", "2", ".", "3", "1">>, value |-> [mant |-> 4231, frac |-> 2]],
    [text |-> <<" ", "7", " ">>, value |-> [mant |-> 7, frac |-> 0]],
    [text |-> <<"+", ".", "5">>, value |-> [mant |-> 5, frac |-> 1]],
    [text |-> <<"3", ".">>, value |-> [mant |-> 3, frac |-> 0]]}

\* parts that are not numbers
OtherParts == {
    <<>>,
    <<"a", "b", "c">>,
    <<"4", " ", "2">>,
    <<"1", "-", "2">>,
    <<".">>,
    <<"n", "a", "n">>,
    <<" ", "N", "a", "N", " ">>}

CoordinateParts == {n.text : n \in NumberParts} \cup OtherParts

\* the inputs: null, the empty string, and one, two or three comma-separated parts
CoordinateInputs ==
    {None} \cup {Some(a) : a \in CoordinateParts}
           \cup {Some(a \o <<",">> \o b) : a, b \in CoordinateParts}
           \cup {Some(a.text \o <<",">> \o b.text \o <<",">> \o c) :
                     a, b \in NumberParts, c \in CoordinateParts}

InitCoordinates ==
    /\ coordIn \in CoordinateInputs
    /\ coordOut = None
    /\ kIn = <<>>
    /\ kOut = None
    /\ SamplerIdle
    /\ BatchIdle
    /\ ProcessIdle
    /\ GraphIdle
    /\ RestIdle

\* lon, lat = parse_coordinates(coordinates_str)
ParseCoordinates ==
    /\ coordOut = None
    /\ coordOut' = Some(parse_coordinates(coordIn))
    /\ UNCHANGED <<coordIn, kIn, kOut, samplerVars, batchVars, processVars, graphVars, restVars>>

NextCoordinates == ParseCoordinates

SpecCoordinates == InitCoordinates /\ [][NextCoordinates]_vars

\* the input is "<lon>,<lat>" with both parts decimal numbers
TwoNumbers(lon, lat) == coordIn = Some(lon.text \o <<",">> \o lat.text)

\* C17: parse_coordinates returns (lon, lat) in that order for "<lon>,<lat>" with
\* two numbers, and (null, null) for every other input: null, the empty string,
\* no comma, more than two parts, or a part that is not a number
C17_LonLatOrNulls ==
    coordOut # None =>
        IF \E lon, lat \in NumberParts : TwoNumbers(lon, lat)
        THEN \A lon, lat \in NumberParts :
                 TwoNumbers(lon, lat) => coordOut[1] = <<Some(lon.value), Some(lat.value)>>
        ELSE coordOut[1] = <<None, None>>


(***************************************************************************)
(* Risk surface: geocoding/kde_risk_surface.py, build_risk_kde.            *)
(* Coordinates and weights are integers; None is a missing value (NaN).    *)
(***************************************************************************)
\* the longest geocoded_crimes frame
MaxPoints == 3

max_replications == 50

\* np.floor of num / den, for num >= 0 and den > 0
RoundDown(num, den) == num \div den

\* np.round of num / den, for num >= 0 and den > 0: halves go to the even integer
RoundHalfEven(num, den) ==
    LET q == num \div den
        r == num % den
    IN  IF 2 * r < den THEN q
        ELSE IF 2 * r > den THEN q + 1
        ELSE IF q % 2 = 0 THEN q ELSE q + 1

\* geocoded_crimes[lat.notna() & lon.notna()]: the positions of the kept rows
valid_data(geocoded_crimes) ==
    MaskedIdx([k \in DOMAIN geocoded_crimes |->
                   geocoded_crimes[k].lat # None /\ geocoded_crimes[k].lon # None], 1)

\* np.maximum(weights, 0.0): NaN stays NaN
Maximum0(weights) ==
    [i \in DOMAIN weights |->
        IF weights[i] = None THEN None
        ELSE IF weights[i][1] < 0 THEN Some(0) ELSE weights[i]]

\* weights > 0: False for NaN
PositiveMask(weights) ==
    [i \in DOMAIN weights |-> weights[i] # None /\ weights[i][1] > 0]

\* the replication counts of the retained weights
integer_weights(weights) ==
    LET weight_min == CHOOSE w \in {weights[i] : i \in DOMAIN weights} :
                          \A i \in DOMAIN weights : w <= weights[i]
        weight_max == MaxOf({weights[i] : i \in DOMAIN weights})
        span == weight_max - weight_min
    IN  [i \in DOMAIN weights |->
            IF weight_max > weight_min
            THEN RoundHalfEven(span + (weights[i] - weight_min) * (max_replications - 1), span)
            ELSE max_replications]

\* np.repeat(a, repeats)
RECURSIVE Repeat(_, _)
Repeat(a, repeats) ==
    IF a = <<>> THEN <<>>
    ELSE [k \in 1..repeats[1] |-> a[1]] \o Repeat(Tail(a), Tail(repeats))

\* the data lie on one line or in one point: their covariance matrix is singular
LowerDimensional(kde_data) ==
    LET S == {kde_data[i] : i \in DOMAIN kde_data}
    IN  \A a, b, c \in S :
            (b[1] - a[1]) * (c[2] - a[2]) = (b[2] - a[2]) * (c[1] - a[1])

\* gaussian_kde(kde_data): on a singular covariance matrix the factorisation
\* raises LinAlgError or, when rounding leaves it barely regular, goes through
gaussian_kde(kde_data) ==
    {[kind |-> "fitted", dataset |-> kde_data]}
        \cup (IF LowerDimensional(kde_data)
              THEN {[kind |-> "raised", type |-> "LinAlgError"]} ELSE {})

\* build_risk_kde(geocoded_crimes, graph_crs): the set of its possible outcomes
build_risk_kde(geocoded_crimes) ==
    LET valid == valid_data(geocoded_crimes)
    IN  IF Len(valid) = 0
        THEN {[kind |-> "raised", type |-> "ValueError",
               message |-> "No valid coordinates found in geocoded_crimes"]}
        ELSE
        LET coords == [i \in DOMAIN valid |->
                          ToCrs(geocoded_crimes[valid[i]].lon[1], geocoded_crimes[valid[i]].lat[1])]
            clamped == Maximum0([i \in DOMAIN valid |-> geocoded_crimes[valid[i]].crime_score])
            kept == MaskedIdx(PositiveMask(clamped), 1)
        IN  IF Len(kept) = 0
            THEN {[kind |-> "raised", type |-> "ValueError",
                   message |-> "No points with positive weights"]}
            ELSE
            LET weights == [i \in DOMAIN kept |-> clamped[kept[i]][1]]
                reps == integer_weights(weights)
                kde_data == Repeat([i \in DOMAIN kept |-> coords[kept[i]]], reps)
            IN  {IF kde.kind = "fitted"
                 THEN [kind |-> "fitted", dataset |-> kde.dataset,
                       retained |-> [i \in DOMAIN kept |-> valid[kept[i]]],
                       integer_weights |-> reps]
                 ELSE kde : kde \in gaussian_kde(kde_data)}

SurfaceRow(lon, lat, crime_score) ==
    [lon |-> lon, lat |-> lat, crime_score |-> crime_score]

\* rows of geocoded_crimes: three points on one line, one off it, zero, negative
\* and missing weights, missing latitude, missing longitude
SurfaceRows == {
    SurfaceRow(Some(-71), Some(42), Some(1)),
    SurfaceRow(Some(-69), Some(43), Some(2)),
    SurfaceRow(Some(-70), Some(45), Some(3)),
    SurfaceRow(Some(-67), Some(44), Some(5)),
    SurfaceRow(Some(-71), Some(42), Some(0)),
    SurfaceRow(Some(-69), Some(43), Some(-1)),
    SurfaceRow(Some(-67), Some(44), None),
    SurfaceRow(Some(-70), None, Some(2)),
    SurfaceRow(None, Some(45), Some(3)),
    SurfaceRow(Some(-70), Some(45), Some(4))}

InitSurface ==
    /\ kIn \in UNION {[1..n -> SurfaceRows] : n \in 0..MaxPoints}
    /\ kOut = None
    /\ coordIn = None
    /\ coordOut = None
    /\ SamplerIdle
    /\ BatchIdle
    /\ ProcessIdle
    /\ GraphIdle
    /\ RestIdle

\* the sum of a long sequence, by halves
RECURSIVE Total(_)
Total(s) ==
    IF Len(s) = 0 THEN 0
    ELSE IF Len(s) = 1 THEN s[1]
    ELSE Total(SubSeq(s, 1, Len(s) \div 2)) + Total(SubSeq(s, Len(s) \div 2 + 1, Len(s)))

\* gaussian_kde.evaluate at one point: the sum of the kernels of the data
kde_evaluate(dataset, pt) ==
    Total([k \in DOMAIN dataset |->
              Kernel((dataset[k][1] - pt[1]) * (dataset[k][1] - pt[1])
                     + (dataset[k][2] - pt[2]) * (dataset[k][2] - pt[2]))])

\* np.maximum(risk_scores, 0.0)
ClampScores(risk_scores) ==
    [i \in DOMAIN risk_scores |-> IF risk_scores[i] < 0 THEN 0 ELSE risk_scores[i]]

\* the log-density of the points in place of their clamped density
evaluate_kde_at_points_LogDensity(dataset, points, columns) ==
    IF columns # 2 THEN [kind |-> "raised", type |-> "ValueError"]
    ELSE [kind |-> "returned", points |-> points,
          risk_scores |-> [i \in DOMAIN points |-> kde_evaluate(dataset, points[i]) - 3]]

\* evaluate_kde_at_points(kde, points) for points of shape (Len(points), columns)
evaluate_kde_at_points(dataset, points, columns) ==
    IF columns # 2 THEN [kind |-> "raised", type |-> "ValueError"]
    ELSE [kind |-> "returned", points |-> points,
          risk_scores |-> ClampScores([i \in DOMAIN points |->
                                          kde_evaluate(dataset, points[i])])]

\* arrays of points in the projected frame: none, on the data, beside the
\* data, far outside the cloud, and an array with three columns
PointArrays == {
    [columns |-> 2, rows |-> <<>>],
    [columns |-> 2, rows |-> <<<<0, 0>>>>],
    [columns |-> 2, rows |-> <<<<2, 1>>>>],
    [columns |-> 2, rows |-> <<<<1, 2>>, <<500, -500>>>>],
    [columns |-> 2, rows |-> <<<<-20000, 7>>>>],
    [columns |-> 3, rows |-> <<<<0, 0, 0>>>>]}

\* kde, transformer = build_risk_kde(geocoded_crimes, graph_crs)
BuildRiskKde ==
    /\ kOut = None
    /\ \E outcome \in build_risk_kde(kIn) : kOut' = Some(outcome)
    /\ UNCHANGED <<kIn, coordIn, coordOut, samplerVars, batchVars, processVars, graphVars, restVars>>

\* risk_scores = evaluate_kde_at_points(kde, points) on the fitted surface
EvaluateKdeAtPoints ==
    /\ kOut # None
    /\ kOut[1].kind = "fitted"
    /\ eOut = None
    /\ \E points \in PointArrays :
           eOut' = Some(evaluate_kde_at_points(kOut[1].dataset, points.rows, points.columns))
    /\ UNCHANGED <<kIn, kOut, coordIn, coordOut, samplerVars, batchVars, processVars,
                   graphVars, searchVars, cacheVars>>

NextSurface == BuildRiskKde \/ EvaluateKdeAtPoints

SpecSurface == InitSurface /\ [][NextSurface]_vars

\* the rows with both coordinates and a weight that is > 0 after clamping
Usable ==
    MaskedIdx([k \in DOMAIN kIn |->
                  /\ kIn[k].lat # None
                  /\ kIn[k].lon # None
                  /\ kIn[k].crime_score # None
                  /\ kIn[k].crime_score[1] > 0], 1)

\* C18: build_risk_kde fails with the insufficient-data error exactly when no
\* row has both coordinates and a positive weight; otherwise it fits the
\* estimator on the rows that have both coordinates and a positive weight only
C18_FailsExactlyWhenNothingUsable ==
    kOut # None =>
        IF Usable = <<>>
        THEN kOut[1].kind = "raised" /\ kOut[1].type = "ValueError"
        ELSE /\ kOut[1].kind = "fitted"
             /\ kOut[1].retained = Usable
             /\ \A i \in DOMAIN kOut[1].dataset :
                    \E k \in DOMAIN Usable :
                        kOut[1].dataset[i] = ToCrs(kIn[Usable[k]].lon[1], kIn[Usable[k]].lat[1])


\* the weights of the retained rows, in the order of the replication counts
RetainedWeights == [i \in DOMAIN kOut[1].retained |-> kIn[kOut[1].retained[i]].crime_score[1]]

\* C19: every retained point is replicated r times, r an integer in 1..50: when
\* the weights differ the least weight gets 1, the greatest gets 50 and r is the
\* linear rescale of the weight rounded to an integer, non-decreasing in the
\* weight; when all weights are equal every r is 50; the replicated cloud has
\* the sum of the r points, at most 50 times the number of retained points
C19_ReplicationCounts ==
    (kOut # None /\ kOut[1].kind = "fitted") =>
        LET r == kOut[1].integer_weights
            w == RetainedWeights
            lo == CHOOSE a \in {w[i] : i \in DOMAIN w} : \A i \in DOMAIN w : a <= w[i]
            hi == CHOOSE a \in {w[i] : i \in DOMAIN w} : \A i \in DOMAIN w : a >= w[i]
        IN  /\ DOMAIN r = DOMAIN w
            /\ \A i \in DOMAIN r : r[i] \in 1..50
            /\ IF lo < hi
               THEN \A i \in DOMAIN r :
                        /\ w[i] = lo => r[i] = 1
                        /\ w[i] = hi => r[i] = 50
                        /\ 2 * Abs(r[i] * (hi - lo) - ((hi - lo) + 49 * (w[i] - lo))) <= hi - lo
                        /\ \A j \in DOMAIN r : w[i] <= w[j] => r[i] <= r[j]
               ELSE \A i \in DOMAIN r : r[i] = 50
            /\ Len(kOut[1].dataset) = SumSeq(r)
            /\ Len(kOut[1].dataset) <= 50 * Len(kOut[1].retained)

\* three retained points of different weights, the middle one rounded up from a
\* half (25.5 to 26), fitted on 77 replicated points
C19_Witness ==
    /\ kOut # None
    /\ kOut[1].kind = "fitted"
    /\ Len(kOut[1].retained) = 3
    /\ \E i, j, k \in 1..3 :
           /\ kOut[1].integer_weights[i] = 1
           /\ kOut[1].integer_weights[j] = 26
           /\ kOut[1].integer_weights[k] = 50
    /\ Len(kOut[1].dataset) = 77


(***************************************************************************)
(* Claims about the comparison metrics (SpecRoute)                         *)
(***************************************************************************)
\* a route program got both paths of a pair and went on to the comparison
Compared ==
    /\ out.op \in {"evaluate_route", "single_route"}
    /\ "fast_stats" \in DOMAIN out

\* C20: every comparison metric of a route pair is computed with guarded
\* division, in the multi-route evaluator and in the single-route program: no
\* division error is raised, and a metric whose denominator is 0 is 0
C20_GuardedDivision ==
    Compared =>
        /\ "exc" \notin DOMAIN out
        /\ out.fast_stats.distance_m = 0 =>
               out.metrics.distance_increase.num = 0 /\ out.metrics.time_increase.num = 0
        /\ out.fast_stats.avg_risk.num = 0 => out.metrics.risk_reduction.num = 0
        /\ out.fast_stats.total_risk_exposure = 0 => out.metrics.exposure_reduction.num = 0
        /\ (out.op = "single_route" /\ out.fast_stats.max_risk = 0)
               => out.metrics.max_risk_reduction.num = 0


(***************************************************************************)
(* The route search on its own (SpecSearch): nx.astar_path with the        *)
(* heuristic of euclidean_distance_heuristic, graph/main.py, step by step. *)
(* Priorities are in hundredths of a length unit.                          *)
(***************************************************************************)
\* math.sqrt(n) in hundredths, rounded down
SqrtHundredths(n) ==
    CHOOSE r \in 0..(100 * n + 100) : r * r <= 10000 * n /\ 10000 * n < (r + 1) * (r + 1)

\* heuristic(u, v): G.nodes[u]['x'] and the three other lookups raise KeyError
\* (None) on a node without coordinates
euclidean_distance_heuristic(u, v) ==
    IF u \notin located \/ v \notin located THEN None
    ELSE Some(SqrtHundredths((NodeXY[v][1] - NodeXY[u][1]) * (NodeXY[v][1] - NodeXY[u][1])
                             + (NodeXY[v][2] - NodeXY[u][2]) * (NodeXY[v][2] - NodeXY[u][2])))

\* G[curnode]: the successors of curnode in the order their first edge was added
RECURSIVE Successors(_, _, _)
Successors(G, curnode, k) ==
    IF k > Len(G.edges) THEN <<>>
    ELSE LET rest == Successors(G, curnode, k + 1)
             v == G.edges[k].v
         IN  IF G.edges[k].u = curnode
             THEN <<v>> \o SelectSeq(rest, LAMBDA n : n # v)
             ELSE rest

\* the inner loop of astar_path over the successors of curnode; exc is set when
\* the heuristic raises
RECURSIVE Relax(_, _, _, _, _, _)
Relax(S, G, target, curnode, dist, nbrs) ==
    IF nbrs = <<>> \/ S.exc # None THEN S
    ELSE LET neighbor == Head(nbrs)
             ncost == dist + 100 * StepWeight(G, curnode, neighbor, LENGTH)
             known == neighbor \in DOMAIN S.enqueued
         IN  IF known /\ S.enqueued[neighbor].cost <= ncost
             THEN Relax(S, G, target, curnode, dist, Tail(nbrs))
             ELSE LET h == IF known THEN Some(S.enqueued[neighbor].h)
                           ELSE euclidean_distance_heuristic(neighbor, target)
                  IN  IF h = None
                      THEN [S EXCEPT !.exc = Some("KeyError")]
                      ELSE Relax([S EXCEPT
                                     !.enqueued = (neighbor :> [cost |-> ncost, h |-> h[1]]) @@ @,
                                     !.queue = Append(@, [priority |-> ncost + h[1], c |-> S.c,
                                                          node |-> neighbor, dist |-> ncost,
                                                          parent |-> curnode]),
                                     !.c = @ + 1],
                                 G, target, curnode, dist, Tail(nbrs))

\* the path from the explored parents: parent 0 is None
RECURSIVE PathBack(_, _)
PathBack(explored, node) ==
    IF node = 0 THEN <<>> ELSE Append(PathBack(explored, explored[node]), node)

\* the main loop of astar_path: pop the entry of least (priority, counter)
RECURSIVE AstarLoop(_, _, _)
AstarLoop(S, G, target) ==
    IF S.exc # None THEN [kind |-> "raised", type |-> S.exc[1]]
    ELSE IF S.queue = <<>> THEN [kind |-> "raised", type |-> "NetworkXNoPath"]
    ELSE LET k == CHOOSE i \in DOMAIN S.queue : \A j \in DOMAIN S.queue :
                      \/ S.queue[i].priority < S.queue[j].priority
                      \/ S.queue[i].priority = S.queue[j].priority /\ S.queue[i].c <= S.queue[j].c
             e == S.queue[k]
             popped == [S EXCEPT !.queue = SubSeq(@, 1, k - 1) \o SubSeq(@, k + 1, Len(@))]
         IN  IF e.node = target
             THEN [kind |-> "returned", path |-> Append(PathBack(S.explored, e.parent), e.node)]
             ELSE IF /\ e.node \in DOMAIN S.explored
                     /\ \/ S.explored[e.node] = 0
                        \/ S.enqueued[e.node].cost < e.dist
             THEN AstarLoop(popped, G, target)
             ELSE AstarLoop(Relax([popped EXCEPT !.explored = (e.node :> e.parent) @@ @],
                                  G, target, e.node, e.dist, Successors(G, e.node, 1)),
                            G, target)

\* nx.astar_path(G, source, target, heuristic, weight='length')
astar_search(G, source, target) ==
    AstarLoop([queue |-> <<[priority |-> 0, c |-> 0, node |-> source, dist |-> 0, parent |-> 0]>>,
               enqueued |-> <<>>, explored |-> <<>>, c |-> 1, exc |-> None],
              G, target)

InitSearch ==
    /\ located \in SUBSET Nodes
    /\ query \in Nodes \X Nodes
    /\ found = None
    /\ SamplerIdle
    /\ BatchIdle
    /\ ProcessIdle
    /\ GraphIdle
    /\ SurfaceIdle
    /\ EvalIdle
    /\ CacheIdle

\* fastest_path = nx.astar_path(G, orig_node, dest_node, heuristic, 'length')
AstarPath ==
    /\ found = None
    /\ found' = Some(astar_search(BaseGraph, query[1], query[2]))
    /\ UNCHANGED <<located, query, samplerVars, batchVars, processVars, graphVars,
                   surfaceVars, evalVars, cacheVars>>

NextSearch == AstarPath

SpecSearch == InitSearch /\ [][NextSearch]_vars

\* C21: when coordinates of nodes are unavailable the search still completes:
\* whenever a path from the source to the target exists it returns a path of
\* least total length, whichever nodes lack coordinates
C21_CompletesWithoutCoordinates ==
    (found # None /\ astar_path(BaseGraph, query[1], query[2], LENGTH) # {}) =>
        /\ found[1].kind = "returned"
        /\ found[1].path \in astar_path(BaseGraph, query[1], query[2], LENGTH)


(***************************************************************************)
(* Claims about the evaluation of the risk surface (SpecSurface)           *)
(***************************************************************************)
\* C22: evaluate_kde_at_points never returns a negative value: on every fitted
\* surface and for every array of (x, y) points, far outside the training cloud
\* included, each returned density is >= 0
C22_NoNegativeDensity ==
    (eOut # None /\ eOut[1].kind = "returned") =>
        /\ Len(eOut[1].risk_scores) = Len(eOut[1].points)
        /\ \A i \in DOMAIN eOut[1].risk_scores : eOut[1].risk_scores[i] >= 0

\* a surface evaluated at a point beside the data and at a point far outside
\* the cloud: a positive density and the density 0
C22_Witness ==
    /\ eOut # None
    /\ eOut[1].kind = "returned"
    /\ eOut[1].points = <<<<1, 2>>, <<500, -500>>>>
    /\ eOut[1].risk_scores[1] > 0
    /\ eOut[1].risk_scores[2] = 0


(***************************************************************************)
(* One invocation of batch_geocode_addresses on its own (SpecBatch):       *)
(* addresses_df of 0..MaxRows rows.                                        *)
(***************************************************************************)
\* the longest addresses_df
MaxRows == 5

\* addresses_df with n rows, ids 1..n
InputTable(n) == GeocodingDf([k \in 1..n |-> NatStr(100 + k) \o <<" ","M","A","I","N">>])

InitBatch ==
    /\ \E n \in 0..MaxRows : bRows = [p \in Callers |-> IF p = 1 THEN InputTable(n) ELSE <<>>]
    /\ bI = [p \in Callers |-> 0]
    /\ bPc = [p \in Callers |-> IF p = 1 THEN "loop" ELSE "off"]
    /\ bAll = [p \in Callers |-> <<>>]
    /\ bResp = [p \in Callers |-> None]
    /\ bExc = [p \in Callers |-> None]
    /\ bOut = [p \in Callers |-> None]
    /\ disk = {}
    /\ sent = <<>>
    /\ SamplerIdle
    /\ ProcessIdle
    /\ GraphIdle
    /\ SurfaceIdle
    /\ RestIdle

NextBatch ==
    \/ BatchReturn(1)
    \/ Serialize(1)
    \/ SerializeFails(1)
    \/ Post(1)
    \/ PostFails(1)
    \/ HandleResponse(1)
    \/ Finally(1)

SpecBatch == InitBatch /\ [][NextBatch]_vars

\* C23: an invocation that returns has issued exactly ceil(n / B) requests, in
\* batch order; request k uploaded the input rows (k-1)*B+1 .. min(n, k*B) in
\* input order, never more than B rows, so the uploads together are the input
\* rows, each once; the returned table is the concatenation of the responses in
\* batch order; for n = 0 there is no request and the returned table is empty
C23_SequentialBatches ==
    (bOut[1] # None /\ bOut[1][1].kind = "returned") =>
        LET n == Len(bRows[1])
            Min(a, b) == IF a < b THEN a ELSE b
        IN  /\ Len(sent) = CeilDiv(n, BATCH_SIZE)
            /\ \A k \in DOMAIN sent :
                   /\ sent[k].rows = SubSeq(bRows[1], (k - 1) * BATCH_SIZE + 1,
                                            Min(n, k * BATCH_SIZE))
                   /\ Len(sent[k].rows) <= BATCH_SIZE
                   /\ sent[k].name = k
            /\ Concat([k \in DOMAIN sent |-> sent[k].rows]) = bRows[1]
            /\ bOut[1][1].table = Concat([k \in DOMAIN sent |-> sent[k].body.table])
            /\ n = 0 => sent = <<>> /\ bOut[1][1].table = <<>>

\* five rows went out as three requests, the last with the one remaining row,
\* and the call returned five result rows
C23_Witness ==
    /\ bOut[1] # None
    /\ bOut[1][1].kind = "returned"
    /\ Len(bRows[1]) = 2 * BATCH_SIZE + 1
    /\ Len(sent) = 3
    /\ Len(sent[3].rows) = 1
    /\ Len(bOut[1][1].table) = Len(bRows[1])


(***************************************************************************)
(* Claims about the cache of create_graph (SpecGraph)                      *)
(***************************************************************************)
\* the attribute name of the 4-hour bucket of an hour
BucketOf(h) ==
    KDE_SCORE_FOR \o Pad2(4 * (h \div 4)) \o <<"_">> \o Pad2(4 * (h \div 4) + 4)

\* C24: across any sequence of create_graph calls a bucket's annotation is
\* computed and written at most once: no stored artifact is ever rewritten or
\* removed, and a call for an hour whose bucket has its artifact returns the
\* stored graph and the bucket's attribute name without computing anything
C24_ComputedAtMostOnce ==
    [][/\ \A a \in DOMAIN cache : a \in DOMAIN cache' /\ cache'[a] = cache[a]
       /\ (out'.op = "create_graph" /\ BucketOf(out'.hour) \in DOMAIN cache) =>
              /\ "exc" \notin DOMAIN out'
              /\ out'.computed = FALSE
              /\ out'.attr_name = BucketOf(out'.hour)
              /\ cache' = cache
              /\ held' = Holding(LoadGraphml(cache[BucketOf(out'.hour)]), BucketOf(out'.hour))
      ]_vars

\* create_graph for hour 12 answered from the artifact that a call for hour 14
\* of the same bucket stored: two artifacts exist, nothing was computed
C24_Witness ==
    /\ out.op = "create_graph"
    /\ out.hour = 12
    /\ "exc" \notin DOMAIN out
    /\ out.computed = FALSE
    /\ BucketOf(14) \in DOMAIN cache


(***************************************************************************)
(* Claims about the bucket key and the bucket selection (SpecGraph)        *)
(***************************************************************************)
\* C28: the attribute name identifies the data of a run: when run_kde_on_graph
\* has selected the crime points of an hour, every hour of 0..23 with the same
\* attribute name selects the same points, whatever interval strings the crime
\* data holds
C28_SameKeySameSelection ==
    Succeeded("run_kde_on_graph") =>
        \A h \in 0..23 :
            create_attr_name(h) = create_attr_name(out.hour) =>
                LET b == BucketGdf(crimeData, h)
                IN  {b[k] : k \in DOMAIN b} = out.kept


(***************************************************************************)
(* Claims about the join of geocode_block_samples (SpecGeocoder)           *)
(***************************************************************************)
\* the samples submitted for a block address, by row id
SubmittedSamples(block_address) ==
    LET d == parse_block_address(block_address)
    IN  generate_block_samples(d.block_num, d.street_name, d.direction, d.suffix, spacingP)

\* C25: every output row of geocode_block_samples pairs a geocode result with
\* the sample address submitted under the result's row id, in whatever order
\* the service returned the rows of a batch
C25_PairedByRowId ==
    \A g \in DOMAIN pAll : \A k \in DOMAIN pAll[g] :
        LET row == pAll[g][k]
        IN  /\ row.row_id \in DOMAIN SubmittedSamples(row.block_address)
            /\ row.sample_address = SubmittedSamples(row.block_address)[row.row_id]


(***************************************************************************)
(* Claims about the route statistics (SpecRoute)                           *)
(***************************************************************************)
\* C26: the statistics reported for a path are those of the edges the search
\* minimised: the distance reported for the distance-only path is the least
\* total length the search found, parallel edges included
C26_StatsOfSearchedEdges ==
    (out.op \in {"evaluate_route", "single_route"} /\ "fastest_path" \in DOMAIN out) =>
        out.fast_stats.distance_m = PathWeight(held[1].G, out.fastest_path, LENGTH)


(***************************************************************************)
(* Two invocations of batch_geocode_addresses at once (SpecParallel): the  *)
(* steps of the two callers interleave; both write under the directory of  *)
(* the module.                                                             *)
(***************************************************************************)
\* addresses_df of the second caller, ids 1..n
OtherTable(n) == GeocodingDf([k \in 1..n |-> NatStr(200 + k) \o <<" ","E","L","M">>])

InitParallel ==
    /\ \E n1, n2 \in 1..BATCH_SIZE :
           bRows = [p \in Callers |-> IF p = 1 THEN InputTable(n1) ELSE OtherTable(n2)]
    /\ bI = [p \in Callers |-> 0]
    /\ bPc = [p \in Callers |-> "loop"]
    /\ bAll = [p \in Callers |-> <<>>]
    /\ bResp = [p \in Callers |-> None]
    /\ bExc = [p \in Callers |-> None]
    /\ bOut = [p \in Callers |-> None]
    /\ disk = {}
    /\ sent = <<>>
    /\ SamplerIdle
    /\ ProcessIdle
    /\ GraphIdle
    /\ SurfaceIdle
    /\ RestIdle

\* open(temp_csv, "rb") raises inside the try block: the file is gone
OpenFails(p) ==
    /\ bPc[p] = "try"
    /\ FilesNamed(BatchName(p)) = {}
    /\ bExc' = [bExc EXCEPT ![p] = Some(Exception("FileNotFoundError", 0, NoBody))]
    /\ bPc' = [bPc EXCEPT ![p] = "finally"]
    /\ UNCHANGED <<samplerVars, processVars, graphVars, surfaceVars, restVars,
                   bRows, bI, bAll, bResp, bOut, disk, sent>>

NextParallel ==
    \E p \in Callers :
        \/ BatchReturn(p)
        \/ Serialize(p)
        \/ SerializeFails(p)
        \/ Post(p)
        \/ PostFails(p)
        \/ OpenFails(p)
        \/ HandleResponse(p)
        \/ Finally(p)

SpecParallel == InitParallel /\ [][NextParallel]_vars

\* C27: two concurrent invocations do not interfere through their temporary
\* files: every request uploads the rows of the batch of the invocation that
\* sent it, and a temporary file leaves the disk or changes only by a step of
\* the invocation that created it
C27_NoInterference ==
    [][/\ \A k \in DOMAIN sent' :
              sent'[k].rows = BatchSlice(bRows[sent'[k].by],
                                         (sent'[k].name - 1) * BATCH_SIZE, BATCH_SIZE)
       /\ \A f \in disk : f \notin disk' => bPc'[f.by] # bPc[f.by]
      ]_vars


(***************************************************************************)
(* Aggregated-crime geocoding with its result file: geocoding/geocoding.py *)
(* A table is [columns, index, rows]; a row maps column names to cells.    *)
(***************************************************************************)
StrCell(s) == [kind |-> "str", str |-> s, num |-> 0, lat |-> 0, lng |-> 0]

IntCell(n) == [kind |-> "int", str |-> <<>>, num |-> n, lat |-> 0, lng |-> 0]

\* the float nan pandas puts where a value is missing
NanCell == [kind |-> "nan", str |-> <<>>, num |-> 0, lat |-> 0, lng |-> 0]

\* the (lat, lng) tuple os.geocode returns
PointCell(lat, lng) == [kind |-> "tuple", str |-> <<>>, num |-> 0, lat |-> lat, lng |-> lng]

DataFrame(columns, index, rows) == [columns |-> columns, index |-> index, rows |-> rows]

\* RangeIndex(n): 0 .. n-1
RangeIndex(n) == [k \in 1..n |-> k - 1]

\* \d+ and \s+ are greedy: the first position after the run that starts at i
RECURSIVE DigitRunEnd(_, _)
DigitRunEnd(s, i) == IF i <= Len(s) /\ IsDigit(s[i]) THEN DigitRunEnd(s, i + 1) ELSE i

RECURSIVE SpaceRunEnd(_, _)
SpaceRunEnd(s, i) == IF i <= Len(s) /\ IsSpace(s[i]) THEN SpaceRunEnd(s, i + 1) ELSE i

\* r"(\d+)\s+BLOCK\s+" tried at position i: the first position after the
\* match, 0 when it does not match there
BlockMatchEnd(s, i) ==
    LET d == DigitRunEnd(s, i)
        w == SpaceRunEnd(s, d)
        e == SpaceRunEnd(s, w + Len(BLOCK))
    IN  IF d > i /\ w > d /\ StartsWithAt(s, w, BLOCK) /\ e > w + Len(BLOCK) THEN e ELSE 0

\* re.search: start_num of the leftmost match, 0 when there is none
start_num(addr) ==
    LET hits == {i \in 1..Len(addr) : BlockMatchEnd(addr, i) # 0}
    IN  IF hits = {} THEN 0
        ELSE LET i == CHOOSE h \in hits : \A g \in hits : h <= g
             IN  DigitsValue(SubSeq(addr, i, DigitRunEnd(addr, i) - 1), 0)

\* re.sub(r"\d+\s+BLOCK\s+", repl, address): every match, left to right
RECURSIVE ReSubFrom(_, _, _)
ReSubFrom(s, i, repl) ==
    IF i > Len(s) THEN <<>>
    ELSE IF BlockMatchEnd(s, i) # 0 THEN repl \o ReSubFrom(s, BlockMatchEnd(s, i), repl)
    ELSE <<s[i]>> \o ReSubFrom(s, i + 1, repl)

expand_block_address(addr, step) ==
    LET numbers == PyRange(start_num(addr), start_num(addr) + 101, step)
    IN  [k \in 1..Len(numbers) |-> ReSubFrom(addr, 1, IntStr(numbers[k]) \o <<" ">>)]

sample_street_addresses(addr, step_size) == expand_block_address(addr, step_size)

\* str.zfill(width)
RECURSIVE zfill(_, _)
zfill(s, width) == IF Len(s) >= width THEN s ELSE zfill(<<"0">> \o s, width)

\* one row per part of a row's "Block Address" split on "&", stripped
ExplodeRow(row) ==
    LET parts == SplitOn(row["Block Address"].str, "&")
    IN  [k \in 1..Len(parts) |-> Put(row, "Block Address", StrCell(Strip(parts[k])))]

RECURSIVE ExplodeRows(_)
ExplodeRows(rows) == IF rows = <<>> THEN <<>> ELSE ExplodeRow(rows[1]) \o ExplodeRows(Tail(rows))

AddressOf(row) ==
    row["Block Address"].str \o <<" ">> \o row["Neighborhood"].str \o <<" ">>
        \o <<"M","A">> \o <<" ">> \o zfill(IntStr(row["Zip Code"].num), 5)

\* one row per sampled address of a row
ExplodeAddress(row, step_size) ==
    LET sampled == sample_street_addresses(row["Address"].str, step_size)
    IN  [k \in 1..Len(sampled) |-> Put(row, "Address", StrCell(sampled[k]))]

RECURSIVE ExplodeAddresses(_, _)
ExplodeAddresses(rows, step_size) ==
    IF rows = <<>> THEN <<>>
    ELSE ExplodeAddress(rows[1], step_size) \o ExplodeAddresses(Tail(rows), step_size)

\* the positions of a sequence kept by a boolean mask, in order
RECURSIVE Kept(_, _)
Kept(mask, i) ==
    IF i > Len(mask) THEN <<>>
    ELSE (IF mask[i] THEN <<i>> ELSE <<>>) \o Kept(mask, i + 1)

format_aggregated_crimes_for_geocoding(crimes, step_size) ==
    LET IsMulti(row) == Contains(row["Block Address"].str, AMP)
        multi_block_crimes == SelectSeq(crimes.rows, IsMulti)
        exploded_crimes == ExplodeRows(multi_block_crimes)
        NotMulti(row) == ~IsMulti(row)
        single_block_crimes == SelectSeq(crimes.rows, NotMulti)
        concat == single_block_crimes \o exploded_crimes
        all_crimes == [k \in 1..Len(concat) |->
                          Put(concat[k], "Address", StrCell(AddressOf(concat[k])))]
        all_crimes_exploded == ExplodeAddresses(all_crimes, step_size)
        original_addresses == {all_crimes[k]["Address"] : k \in 1..Len(all_crimes)}
        keep == Kept([k \in 1..Len(all_crimes_exploded) |->
                         all_crimes_exploded[k]["Address"] \notin original_addresses], 1)
    IN  DataFrame(crimes.columns \o <<"Address">>,
                  [k \in 1..Len(keep) |-> keep[k] - 1],
                  [k \in 1..Len(keep) |-> all_crimes_exploded[keep[k]]])

\* what geocode_row returns for a row: os.geocode's tuple, or "N/A" when the
\* geocoder raised
GeocodeResults == {PointCell(42, -71), StrCell(<<"N","/","A">>)}

\* the text to_csv writes for a cell
CellText(c) ==
    CASE c.kind = "str" -> c.str
      [] c.kind = "int" -> IntStr(c.num)
      [] c.kind = "nan" -> <<>>
      [] c.kind = "tuple" -> <<"(">> \o IntStr(c.lat) \o <<",", " ">> \o IntStr(c.lng) \o <<")">>

\* DataFrame.to_csv(path): a header line that starts with an empty name for
\* the index, then the index label and the cells of every row
to_csv(frame) ==
    [header |-> <<"">> \o frame.columns,
     lines |-> [k \in 1..Len(frame.rows) |->
                   <<IntStr(frame.index[k])>>
                   \o [c \in 1..Len(frame.columns) |-> CellText(frame.rows[k][frame.columns[c]])]]]

\* texts pd.read_csv reads as missing
NaValues == {<<>>, <<"N","/","A">>,
             <<"N","A">>,
             <<"N","a","N">>,
             <<"n","a","n">>,
             <<"N","U","L","L">>,
             <<"n","u","l","l">>,
             <<"N","o","n","e">>,
             <<"n","/","a">>,
             <<"#","N","/","A">>,
             <<"#","N","A">>,
             <<"<","N","A",">">>,
             <<"-","N","a","N">>,
             <<"-","n","a","n">>}

IsIntText(text) ==
    /\ text # <<>>
    /\ \A i \in 1..Len(text) : IsDigit(text[i]) \/ (i = 1 /\ text[i] = "-" /\ Len(text) > 1)

IntOfText(text) ==
    IF text[1] = "-" THEN 0 - DigitsValue(Tail(text), 0) ELSE DigitsValue(text, 0)

\* one column of the file: integers when every present value is one,
\* strings otherwise, nan where the text is a missing-value marker
ReadColumn(texts) ==
    LET present == {k \in 1..Len(texts) : texts[k] \notin NaValues}
        numeric == \A k \in present : IsIntText(texts[k])
    IN  [k \in 1..Len(texts) |->
            IF k \notin present THEN NanCell
            ELSE IF numeric THEN IntCell(IntOfText(texts[k]))
            ELSE StrCell(texts[k])]

\* pd.read_csv(path): the unnamed first column becomes "Unnamed: 0", the
\* index is a fresh RangeIndex
read_csv(file) ==
    LET columns == [c \in 1..Len(file.header) |->
                       IF file.header[c] = "" THEN "Unnamed: 0" ELSE file.header[c]]
        column(c) == ReadColumn([k \in 1..Len(file.lines) |-> file.lines[k][c]])
    IN  DataFrame(columns, RangeIndex(Len(file.lines)),
                  [k \in 1..Len(file.lines) |->
                      [name \in {columns[c] : c \in 1..Len(columns)} |->
                          column(CHOOSE c \in 1..Len(columns) : columns[c] = name)[k]]])

\* sampled_aggregated_crimes["coordinates"] = ...apply(geocode_row, axis=1)
WithCoordinates(frame, coordinates) ==
    DataFrame(frame.columns \o <<"coordinates">>, frame.index,
              [k \in 1..Len(frame.rows) |-> Put(frame.rows[k], "coordinates", coordinates[k])])

AggregatedRow(block_address, neighborhood, zip_code) ==
    [name \in {"Block Address", "Neighborhood", "City", "Zip Code"} |->
        CASE name = "Block Address" -> StrCell(block_address)
          [] name = "Neighborhood" -> StrCell(neighborhood)
          [] name = "City" -> StrCell(<<"B","O","S","T","O","N">>)
          [] name = "Zip Code" -> IntCell(zip_code)]

AggregatedCrimes(rows) ==
    DataFrame(<<"Block Address", "Neighborhood", "City", "Zip Code">>, RangeIndex(Len(rows)), rows)

MainBlock == AggregatedRow(<<"1","0","0"," ","B","L","O","C","K"," ","M","A","I","N"," ","S","T">>, <<"R","O","X","B","U","R","Y">>, 2119)

TwoStreets == AggregatedRow(<<"5"," ","B","L","O","C","K"," ","E","L","M"," ","S","T"," ","&"," ","O","A","K"," ","S","T">>, <<"R","O","X","B","U","R","Y">>, 2120)

NoBlock == AggregatedRow(<<"M","A","I","N"," ","S","T">>, <<"R","O","X","B","U","R","Y">>, 2119)

CrimeTables ==
    {AggregatedCrimes(<<MainBlock>>), AggregatedCrimes(<<TwoStreets>>),
     AggregatedCrimes(<<NoBlock>>), AggregatedCrimes(<<TwoStreets, NoBlock>>)}

\* calls of geocode_aggregated_crimes followed in one run
MaxCalls == 2

ReturnedFrame(frame) == [kind |-> "returned", frame |-> frame, error |-> ""]

RaisedError(type) == [kind |-> "raised", frame |-> DataFrame(<<>>, <<>>, <<>>), error |-> type]

InitCache ==
    /\ aggregated_crimes \in CrimeTables
    /\ stored = None
    /\ returned = <<>>
    /\ SamplerIdle
    /\ BatchIdle
    /\ ProcessIdle
    /\ GraphIdle
    /\ SurfaceIdle
    /\ SearchIdle
    /\ EvalIdle

\* one call of geocode_aggregated_crimes(aggregated_crimes)
GeocodeAggregatedCrimes ==
    /\ Len(returned) < MaxCalls
    /\ \E sampled_aggregated_crimes \in
              {format_aggregated_crimes_for_geocoding(aggregated_crimes, 20)} :
          \/ /\ stored # None
             /\ \E frame \in {read_csv(stored[1])} :
                   returned' = Append(returned, ReturnedFrame(frame))
             /\ UNCHANGED stored
          \* apply on an empty frame gives back a frame, not a column: the
          \* assignment raises or leaves an empty column, by the version of
          \* pandas
          \/ /\ stored = None
             /\ sampled_aggregated_crimes.rows = <<>>
             /\ \/ /\ returned' = Append(returned, RaisedError("ValueError"))
                   /\ UNCHANGED stored
                \/ /\ stored' = Some(to_csv(WithCoordinates(sampled_aggregated_crimes, <<>>)))
                   /\ returned' = Append(returned, ReturnedFrame(aggregated_crimes))
          \/ /\ stored = None
             /\ sampled_aggregated_crimes.rows # <<>>
             /\ \E coordinates \in
                       [1..Len(sampled_aggregated_crimes.rows) -> GeocodeResults] :
                   \E geocoded \in {WithCoordinates(sampled_aggregated_crimes, coordinates)} :
                      /\ stored' = Some(to_csv(geocoded))
                      /\ returned' = Append(returned, ReturnedFrame(aggregated_crimes))
    /\ UNCHANGED <<samplerVars, batchVars, processVars, graphVars, surfaceVars,
                   searchVars, evalVars, aggregated_crimes>>

NextCache == GeocodeAggregatedCrimes

SpecCache == InitCache /\ [][NextCache]_vars

SameTable(a, b) == a.columns = b.columns /\ a.index = b.index /\ a.rows = b.rows

\* C29: the table returned by the call that computed and stored the geocoded
\* table equals the table returned by the next call, which reads the stored
\* file
C29_SameWithOrWithoutCache ==
    \A k \in 1..(Len(returned) - 1) :
        (returned[k].kind = "returned" /\ returned[k + 1].kind = "returned") =>
            SameTable(returned[k].frame, returned[k + 1].frame)

=============================================================================
